---- MODULE Spec2Model ----
(***************************************************************************)
(* Flow-OS text-to-graph conversion (lib/graph/textToGraph): the rules     *)
(* based parser, the step classifier, level assignment, coordinate layout  *)
(* and the graph validator.  Texts are TLA+ strings; a character is a      *)
(* string of length one.  call, pc, ret and aux describe the call under    *)
(* way; mem is what the modules keep between calls (the mood cache, the    *)
(* pending requests, the flow store, the background state), none for the   *)
(* text-to-graph functions.                                                *)
(***************************************************************************)
EXTENDS Integers, Sequences, FiniteSets, TLC

VARIABLES call, pc, ret, aux, mem

vars == <<call, pc, ret, aux, mem>>

(***************************************************************************)
(* Bounds of the model.                                                    *)
(***************************************************************************)
\* Number of pieces a generated input text is concatenated from.
MaxPieces == 4
\* Number of steps of an externally constructed workflow.
MaxSteps == 3
\* Number of dependency ids one externally constructed step names.
MaxDeps == 2
\* Number of nested getLevel frames the engine's call stack holds before it
\* throws RangeError ("Maximum call stack size exceeded").
StackLimit == 6
\* Largest `total` handed to detectStepType when it is called on its own.
MaxTotal == 4

(***************************************************************************)
(* Strings.                                                                *)
(***************************************************************************)
Char(s, i) == SubSeq(s, i, i)

Min(S) == CHOOSE m \in S : \A o \in S : m <= o

\* ECMAScript WhiteSpace and LineTerminator characters the inputs can hold.
IsSpace(c) == c \in {" ", "\n", "\t", "\r"}

IsDigit(c) == c \in {"0", "1", "2", "3", "4", "5", "6", "7", "8", "9"}

RECURSIVE TrimStart(_)
TrimStart(s) ==
  IF Len(s) > 0 /\ IsSpace(Char(s, 1)) THEN TrimStart(SubSeq(s, 2, Len(s))) ELSE s

RECURSIVE TrimEnd(_)
TrimEnd(s) ==
  IF Len(s) > 0 /\ IsSpace(Char(s, Len(s))) THEN TrimEnd(SubSeq(s, 1, Len(s) - 1)) ELSE s

\* String.prototype.trim
Trim(s) == TrimEnd(TrimStart(s))

\* String.prototype.indexOf, 1-based; 0 when sub does not occur.
IndexOf(s, sub) ==
  LET C == {i \in 1..(Len(s) - Len(sub) + 1) : SubSeq(s, i, i + Len(sub) - 1) = sub}
  IN  IF C = {} THEN 0 ELSE Min(C)

\* String.prototype.includes
Includes(s, sub) == IndexOf(s, sub) # 0

\* String.prototype.split with a non-empty string separator
RECURSIVE Split(_, _)
RECURSIVE SplitAt(_, _, _)
Split(s, sep) == SplitAt(s, sep, IndexOf(s, sep))

\* The split of s whose first occurrence of sep is at i (0: none).
SplitAt(s, sep, i) ==
  IF i = 0 THEN <<s>>
  ELSE <<SubSeq(s, 1, i - 1)>> \o Split(SubSeq(s, i + Len(sep), Len(s)), sep)

UpperLetters == "ABCDEFGHIJKLMNOPQRSTUVWXYZ"
LowerLetters == "abcdefghijklmnopqrstuvwxyz"

LowerTable ==
  [c \in {Char(UpperLetters, i) : i \in 1..Len(UpperLetters)} |->
     Char(LowerLetters, CHOOSE i \in 1..Len(UpperLetters) : Char(UpperLetters, i) = c)]

LowerChar(c) == IF c \in DOMAIN LowerTable THEN LowerTable[c] ELSE c

\* String.prototype.toLowerCase
RECURSIVE ToLowerCase(_)
ToLowerCase(s) ==
  IF Len(s) = 0 THEN "" ELSE LowerChar(Char(s, 1)) \o ToLowerCase(SubSeq(s, 2, Len(s)))

\* Array.prototype.filter(Boolean) on an array of strings: drops "".
RECURSIVE FilterBoolean(_)
FilterBoolean(parts) ==
  IF parts = <<>> THEN <<>>
  ELSE (IF Head(parts) = "" THEN <<>> ELSE <<Head(parts)>>) \o FilterBoolean(Tail(parts))

\* Array.prototype.map(s => s.trim())
MapTrim(parts) == [i \in 1..Len(parts) |-> Trim(parts[i])]

\* Length of the longest prefix of s made of characters satisfying the class.
RECURSIVE DigitRun(_)
DigitRun(s) ==
  IF Len(s) > 0 /\ IsDigit(Char(s, 1)) THEN 1 + DigitRun(SubSeq(s, 2, Len(s))) ELSE 0

RECURSIVE SpaceRun(_)
SpaceRun(s) ==
  IF Len(s) > 0 /\ IsSpace(Char(s, 1)) THEN 1 + SpaceRun(SubSeq(s, 2, Len(s))) ELSE 0

\* line.replace(/^\d+[\.\)]\s*/, ''): the greedy digit run must be followed
\* at once by '.' or ')'; the match then takes the whole whitespace run.
StripAfterDigits(line, k) ==
  IF k >= 1 /\ k < Len(line) /\ Char(line, k + 1) \in {".", ")"}
  THEN TrimStart(SubSeq(line, k + 2, Len(line)))
  ELSE line

\* The line kept as it is, ordinal marker included.
StripOrdinalKeep(line) == line

StripOrdinal(line) == StripAfterDigits(line, DigitRun(line))

\* A match of /\s+then\s+/i starting at i: the whitespace run from i, the
\* word in any letter case, then the whole following whitespace run.
\* 0 when there is no match at i, else the index after the match.
\* The same for a leading whitespace run of w1 characters.
ThenMatchAfter(s, i, w1) ==
  IF /\ w1 >= 1
     /\ i + w1 + 3 <= Len(s)
     /\ ToLowerCase(SubSeq(s, i + w1, i + w1 + 3)) = "then"
     /\ SpaceRun(SubSeq(s, i + w1 + 4, Len(s))) >= 1
  THEN i + w1 + 4 + SpaceRun(SubSeq(s, i + w1 + 4, Len(s)))
  ELSE 0

ThenMatchEnd(s, i) == ThenMatchAfter(s, i, SpaceRun(SubSeq(s, i, Len(s))))

\* cleanText.split(/\s+then\s+/i)
RECURSIVE SplitThen(_)
RECURSIVE SplitThenAt(_, _)
SplitThen(s) == SplitThenAt(s, {i \in 1..Len(s) : ThenMatchEnd(s, i) # 0})

\* The split of s whose matches start at the indices M.
SplitThenAt(s, M) ==
  IF M = {} THEN <<s>>
  ELSE <<SubSeq(s, 1, Min(M) - 1)>> \o SplitThen(SubSeq(s, ThenMatchEnd(s, Min(M)), Len(s)))

\* Array.prototype.map(line => line.replace(/^\d+[\.\)]\s*/, '').trim())
MapStripOrdinal(lines) == [i \in 1..Len(lines) |-> Trim(StripOrdinal(lines[i]))]

(***************************************************************************)
(* Step classifier and parser.                                             *)
(***************************************************************************)
\* The classifier with the output indicators tested before the input ones.
detectStepTypeOutputFirst(name, index, total) ==
  LET lowerName == ToLowerCase(name)
  IN  IF \/ Includes(lowerName, "end")
         \/ Includes(lowerName, "output")
         \/ Includes(lowerName, "finish")
         \/ Includes(lowerName, "complete")
         \/ Includes(lowerName, "send")
         \/ Includes(lowerName, "deliver")
         \/ Includes(lowerName, "return")
         \/ index = total - 1
      THEN "output"
      ELSE IF \/ Includes(lowerName, "start")
              \/ Includes(lowerName, "input")
              \/ Includes(lowerName, "receive")
              \/ Includes(lowerName, "trigger")
              \/ Includes(lowerName, "begin")
              \/ index = 0
      THEN "input"
      ELSE "default"

\* The two indicator tests of detectStepType on the lower-cased name.
TypeOfLowerName(lowerName, index, total) ==
  IF \/ Includes(lowerName, "start")
     \/ Includes(lowerName, "input")
     \/ Includes(lowerName, "receive")
     \/ Includes(lowerName, "trigger")
     \/ Includes(lowerName, "begin")
     \/ index = 0
  THEN "input"
  ELSE IF \/ Includes(lowerName, "end")
          \/ Includes(lowerName, "output")
          \/ Includes(lowerName, "finish")
          \/ Includes(lowerName, "complete")
          \/ Includes(lowerName, "send")
          \/ Includes(lowerName, "deliver")
          \/ Includes(lowerName, "return")
          \/ index = total - 1
  THEN "output"
  ELSE "default"

\* const lowerName = name.toLowerCase(), then the indicator tests.
detectStepType(name, index, total) == TypeOfLowerName(ToLowerCase(name), index, total)

\* `step-${n}`
StepId(n) == "step-" \o ToString(n)

\* The format cascade with the comma test ahead of the arrow test.
SplitPartsCommaFirst(cleanText) ==
  IF Includes(cleanText, ",")
  THEN FilterBoolean(MapTrim(Split(cleanText, ",")))
  ELSE IF Includes(cleanText, "->")
  THEN FilterBoolean(MapTrim(Split(cleanText, "->")))
  ELSE IF Includes(cleanText, "\n")
  THEN FilterBoolean(MapStripOrdinal(Split(cleanText, "\n")))
  ELSE IF Includes(cleanText, " then ")
  THEN FilterBoolean(MapTrim(SplitThen(cleanText)))
  ELSE <<cleanText>>

\* The split chosen by the format cascade of parseSimpleText.
SplitParts(cleanText) ==
  IF Includes(cleanText, "->")
  THEN FilterBoolean(MapTrim(Split(cleanText, "->")))
  ELSE IF Includes(cleanText, "\n")
  THEN FilterBoolean(MapStripOrdinal(Split(cleanText, "\n")))
  ELSE IF Includes(cleanText, ",")
  THEN FilterBoolean(MapTrim(Split(cleanText, ",")))
  ELSE IF Includes(cleanText, " then ")
  THEN FilterBoolean(MapTrim(SplitThen(cleanText)))
  ELSE <<cleanText>>

\* The dependencies naming the first step whatever the index.
StepDependenciesFirst(i) == IF i - 1 > 0 THEN <<StepId(1)>> ELSE <<>>

\* The dependencies naming the following step.
StepDependenciesNext(i) == IF i - 1 > 0 THEN <<StepId(i + 1)>> ELSE <<>>

\* index > 0 ? [`step-${index}`] : undefined, for the part at 1-based i.
\* A step without dependencies carries `undefined`; every reader of the field
\* treats undefined and the empty array alike, so both are <<>> here.
StepDependencies(i) == IF i - 1 > 0 THEN <<StepId(i - 1)>> ELSE <<>>

\* parts.map((part, index) => ({ id, name, type, dependencies }))
StepsOfParts(parts) ==
  [i \in 1..Len(parts) |->
     [id           |-> StepId(i),
      name         |-> parts[i],
      type         |-> detectStepType(parts[i], i - 1, Len(parts)),
      dependencies |-> StepDependencies(i)]]

parseSimpleText(text) == [steps |-> StepsOfParts(SplitParts(Trim(text)))]

(***************************************************************************)
(* Numbers.  Levels and coordinates are IEEE doubles in the program: the   *)
(* finite ones that occur are integers, and Math.max() of no arguments is  *)
(* -Infinity, so a number is a record that is finite or one of the three   *)
(* special values.                                                         *)
(***************************************************************************)
Fin(n) == [inf |-> 0, n |-> n]
NegInfinity == [inf |-> -1, n |-> 0]
PosInfinity == [inf |-> 1, n |-> 0]
NaN == [inf |-> 2, n |-> 0]

IsFinite(a) == a.inf = 0
IsNaN(a) == a.inf = 2

Sign(n) == IF n > 0 THEN 1 ELSE IF n < 0 THEN -1 ELSE 0

SignedInfinity(sg) == IF sg > 0 THEN PosInfinity ELSE NegInfinity

\* a + b
NumAdd(a, b) ==
  IF IsNaN(a) \/ IsNaN(b) THEN NaN
  ELSE IF IsFinite(a) /\ IsFinite(b) THEN Fin(a.n + b.n)
  ELSE IF IsFinite(a) THEN b
  ELSE IF IsFinite(b) THEN a
  ELSE IF a.inf = b.inf THEN a ELSE NaN

\* -a
NumNeg(a) ==
  IF IsNaN(a) THEN NaN ELSE IF IsFinite(a) THEN Fin(0 - a.n) ELSE SignedInfinity(0 - a.inf)

\* a - b
NumSub(a, b) == NumAdd(a, NumNeg(b))

\* a * b
NumMul(a, b) ==
  IF IsNaN(a) \/ IsNaN(b) THEN NaN
  ELSE IF IsFinite(a) /\ IsFinite(b) THEN Fin(a.n * b.n)
  ELSE LET sa == IF IsFinite(a) THEN Sign(a.n) ELSE a.inf
           sb == IF IsFinite(b) THEN Sign(b.n) ELSE b.inf
       IN  IF sa * sb = 0 THEN NaN ELSE SignedInfinity(sa * sb)

\* a < b
NumLess(a, b) ==
  /\ ~IsNaN(a) /\ ~IsNaN(b)
  /\ \/ a.inf < b.inf
     \/ a.inf = 0 /\ b.inf = 0 /\ a.n < b.n

\* Math.min in the place of Math.max.
NumMin(values) ==
  IF \E i \in 1..Len(values) : IsNaN(values[i]) THEN NaN
  ELSE IF values = <<>> THEN PosInfinity
  ELSE values[CHOOSE i \in 1..Len(values) :
                \A j \in 1..Len(values) : ~NumLess(values[j], values[i])]

\* Math.max(...values): -Infinity for no arguments, NaN if any argument is.
NumMax(values) ==
  IF \E i \in 1..Len(values) : IsNaN(values[i]) THEN NaN
  ELSE IF values = <<>> THEN NegInfinity
  ELSE values[CHOOSE i \in 1..Len(values) :
                \A j \in 1..Len(values) : ~NumLess(values[i], values[j])]

\* v || 0 for a number v: 0 and NaN are falsy.
OrZero(v) == IF v = Fin(0) \/ IsNaN(v) THEN Fin(0) ELSE v

Max(S) == CHOOSE m \in S : \A o \in S : m >= o

(***************************************************************************)
(* Layout.                                                                 *)
(***************************************************************************)
DEFAULT_LAYOUT_OPTIONS ==
  [direction     |-> "TB",
   nodeSpacing   |-> 200,
   levelSpacing  |-> 150,
   startPosition |-> [x |-> Fin(250), y |-> Fin(50)]]

\* { ...DEFAULT_LAYOUT_OPTIONS, ...options }; options omitted is <<>>.
MergeOptions(options) ==
  [f \in DOMAIN DEFAULT_LAYOUT_OPTIONS |->
     IF f \in DOMAIN options THEN options[f] ELSE DEFAULT_LAYOUT_OPTIONS[f]]

\* stepMap = new Map(steps.map(s => [s.id, s])): a later entry replaces an
\* earlier one with the same id.
StepMapHas(steps, id) == \E i \in 1..Len(steps) : steps[i].id = id

StepMapGet(steps, id) == steps[Max({i \in 1..Len(steps) : steps[i].id = id})]

\* step.dependencies.filter(depId => stepMap.has(depId))
RECURSIVE FilterDeps(_, _)
FilterDeps(steps, deps) ==
  IF deps = <<>> THEN <<>>
  ELSE (IF StepMapHas(steps, Head(deps)) THEN <<Head(deps)>> ELSE <<>>)
       \o FilterDeps(steps, Tail(deps))

\* getLevel threads the memo table `levels` through its recursive calls.
\* st is [levels, depth, thrown]: the table, the deepest nesting of getLevel
\* frames so far and whether the call stack overflowed; the result adds the
\* returned value(s).  `visited` is declared by the program and never used.
RECURSIVE getLevel(_, _, _, _)
RECURSIVE MapGetLevel(_, _, _, _)
RECURSIVE MapGetLevelRest(_, _, _, _)

Deepest(depth, st) == IF depth > st.depth THEN depth ELSE st.depth

\* Math.max(...depLevels) + 1
LevelAbove(depLevels) == NumAdd(NumMax(depLevels), Fin(1))

\* levels.set(stepId, level); return level -- once the dependencies' levels
\* r have been computed.
SetLevel(stepId, r) ==
  IF r.thrown
  THEN [levels |-> r.levels, depth |-> r.depth, thrown |-> TRUE, value |-> NaN]
  ELSE [levels |-> (stepId :> LevelAbove(r.values)) @@ r.levels, depth |-> r.depth,
        thrown |-> FALSE, value |-> LevelAbove(r.values)]

getLevel(steps, st, stepId, depth) ==
  IF depth > StackLimit
  THEN [levels |-> st.levels, depth |-> st.depth, thrown |-> TRUE, value |-> NaN]
  ELSE IF stepId \in DOMAIN st.levels
  THEN [levels |-> st.levels, depth |-> Deepest(depth, st), thrown |-> FALSE,
        value |-> st.levels[stepId]]
  ELSE IF \/ ~StepMapHas(steps, stepId)
          \/ StepMapGet(steps, stepId).dependencies = <<>>
  THEN [levels |-> (stepId :> Fin(0)) @@ st.levels, depth |-> Deepest(depth, st),
        thrown |-> FALSE, value |-> Fin(0)]
  ELSE SetLevel(stepId,
         MapGetLevel(steps,
           [levels |-> st.levels, depth |-> Deepest(depth, st), thrown |-> FALSE],
           FilterDeps(steps, StepMapGet(steps, stepId).dependencies),
           depth + 1))

\* .map(depId => getLevel(depId)), left to right
MapGetLevel(steps, st, deps, depth) ==
  IF deps = <<>>
  THEN [levels |-> st.levels, depth |-> st.depth, thrown |-> FALSE, values |-> <<>>]
  ELSE MapGetLevelRest(steps, getLevel(steps, st, Head(deps), depth), Tail(deps), depth)

\* The rest of the map once its first call has returned r.
MapGetLevelRest(steps, r, deps, depth) ==
  IF r.thrown
  THEN [levels |-> r.levels, depth |-> r.depth, thrown |-> TRUE, values |-> <<>>]
  ELSE [MapGetLevel(steps, [levels |-> r.levels, depth |-> r.depth, thrown |-> FALSE],
                    deps, depth)
          EXCEPT !.values = <<r.value>> \o @]

\* The memo table a getLevel call leaves behind.
TableOf(r) == [levels |-> r.levels, depth |-> r.depth, thrown |-> r.thrown]

\* steps.forEach(step => getLevel(step.id)), from step i on
RECURSIVE AllLevels(_, _, _)
AllLevels(steps, st, i) ==
  IF i > Len(steps) \/ st.thrown THEN st
  ELSE AllLevels(steps, TableOf(getLevel(steps, st, steps[i].id, 1)), i + 1)

EmptyLevels == [levels |-> <<>>, depth |-> 0, thrown |-> FALSE]

\* levels.get(step.id) || 0, for each step
LevelOfStep(steps, levels) == [i \in 1..Len(steps) |-> OrZero(levels[steps[i].id])]

\* levelGroups: a Map keeps its keys in insertion order, so a group is
\* ordered by the first step that has its level.
GroupFirst(level, i) == Min({j \in 1..Len(level) : level[j] = level[i]})

GroupOf(level, i) == {j \in 1..Len(level) : level[j] = level[i]}

\* The number of groups taken for the greatest level.
MaxLevelAsSize(level) == Cardinality({GroupFirst(level, i) : i \in 1..Len(level)})

\* maxLevel: the number of groups, less one
MaxLevel(level) == Cardinality({GroupFirst(level, i) : i \in 1..Len(level)}) - 1

\* The position with the two axes exchanged.
PositionAtSwapped(options, adjustedLevel, index, length) ==
  IF options.direction = "LR" \/ options.direction = "RL"
  THEN [x |-> NumAdd(options.startPosition.x,
                     Fin(((2 * index - (length - 1)) * options.nodeSpacing) \div 2)),
        y |-> NumAdd(options.startPosition.y,
                     NumMul(adjustedLevel, Fin(options.levelSpacing)))]
  ELSE [x |-> NumAdd(options.startPosition.x,
                     NumMul(adjustedLevel, Fin(options.levelSpacing))),
        y |-> NumAdd(options.startPosition.y,
                     Fin(((2 * index - (length - 1)) * options.nodeSpacing) \div 2))]

\* The position with the siblings laid out from the start coordinate on,
\* not centred on it.
PositionAtUncentered(options, adjustedLevel, index, length) ==
  IF options.direction = "LR" \/ options.direction = "RL"
  THEN [x |-> NumAdd(options.startPosition.x,
                     NumMul(adjustedLevel, Fin(options.levelSpacing))),
        y |-> NumAdd(options.startPosition.y, Fin(index * options.nodeSpacing))]
  ELSE [x |-> NumAdd(options.startPosition.x, Fin(index * options.nodeSpacing)),
        y |-> NumAdd(options.startPosition.y,
                     NumMul(adjustedLevel, Fin(options.levelSpacing)))]

\* The position of the index-th step of a group of `length` steps.
\* (index - (length - 1) / 2) * nodeSpacing is integral for the even
\* spacings the inputs hold.
PositionAt(options, adjustedLevel, index, length) ==
  IF options.direction = "LR" \/ options.direction = "RL"
  THEN [x |-> NumAdd(options.startPosition.x,
                     NumMul(adjustedLevel, Fin(options.levelSpacing))),
        y |-> NumAdd(options.startPosition.y,
                     Fin(((2 * index - (length - 1)) * options.nodeSpacing) \div 2))]
  ELSE [x |-> NumAdd(options.startPosition.x,
                     Fin(((2 * index - (length - 1)) * options.nodeSpacing) \div 2)),
        y |-> NumAdd(options.startPosition.y,
                     NumMul(adjustedLevel, Fin(options.levelSpacing)))]

PositionOf(options, level, i) ==
  PositionAt(options,
             IF options.direction = "BT" \/ options.direction = "RL"
             THEN NumSub(Fin(MaxLevel(level)), level[i])
             ELSE level[i],
             Cardinality({j \in GroupOf(level, i) : j < i}),
             Cardinality(GroupOf(level, i)))

\* positions.set(step.id, ...) runs group by group; the last write of an id
\* stays.
LastWriter(steps, level, id) ==
  CHOOSE i \in {k \in 1..Len(steps) : steps[k].id = id} :
    \A j \in {k \in 1..Len(steps) : steps[k].id = id} :
      \/ GroupFirst(level, j) < GroupFirst(level, i)
      \/ GroupFirst(level, j) = GroupFirst(level, i) /\ j <= i

Positions(steps, options, level) ==
  [id \in {steps[i].id : i \in 1..Len(steps)} |->
     PositionOf(options, level, LastWriter(steps, level, id))]

\* The layout once every level is in the table lv.
PositionsOfLevels(steps, options, lv) ==
  IF lv.thrown
  THEN [thrown |-> TRUE, positions |-> <<>>, levels |-> lv.levels, depth |-> lv.depth]
  ELSE [thrown    |-> FALSE,
        positions |-> Positions(steps, options, LevelOfStep(steps, lv.levels)),
        levels    |-> lv.levels,
        depth     |-> lv.depth]

\* The result is [thrown, positions, levels, depth]; levels and depth are
\* the function's locals, kept for the properties only.
calculateNodePositions(steps, options) ==
  PositionsOfLevels(steps, options, AllLevels(steps, EmptyLevels, 1))

(***************************************************************************)
(* Graph generation.                                                       *)
(***************************************************************************)
\* The node labelled with the step's id in the place of its name.
stepToNodeLabelId(step, position) ==
  [id       |-> step.id,
   type     |-> step.type,
   position |-> position,
   data     |-> [label |-> step.id]]

stepToNode(step, position) ==
  [id       |-> step.id,
   type     |-> step.type,
   position |-> position,
   data     |-> [label |-> step.name]]

\* Every edge given the id of the first.
EdgeIdZero(n) == "edge-" \o ToString(0)

\* `edge-${n}`
EdgeId(n) == "edge-" \o ToString(n)

\* The edges of steps i.., the first of them numbered edgeIndex.
RECURSIVE EdgesFrom(_, _, _)
EdgesFrom(steps, i, edgeIndex) ==
  IF i > Len(steps) THEN <<>>
  ELSE [k \in 1..Len(steps[i].dependencies) |->
          [id       |-> EdgeId(edgeIndex + k - 1),
           source   |-> steps[i].dependencies[k],
           target   |-> steps[i].id,
           animated |-> TRUE]]
       \o EdgesFrom(steps, i + 1, edgeIndex + Len(steps[i].dependencies))

\* The number of edges the calls logged so far have produced.
RECURSIVE EdgesLogged(_)
EdgesLogged(log) ==
  IF log = <<>> THEN 0
  ELSE (IF Head(log).ret.success THEN Len(Head(log).ret.graph.edges) ELSE 0)
       + EdgesLogged(Tail(log))

\* The edges numbered by a counter that lives on between the calls.
generateEdgesContinuing(steps) ==
  EdgesFrom(steps, 1, IF "log" \in DOMAIN aux THEN EdgesLogged(aux.log) ELSE 0)

\* The edges with the loop stopping one step early.
generateEdgesButLast(steps) == EdgesFrom(SubSeq(steps, 1, Len(steps) - 1), 1, 0)

generateEdges(steps) == EdgesFrom(steps, 1, 0)

\* [thrown |-> TRUE] when calculateNodePositions throws, else the graph.
GraphOfPositions(workflow, p) ==
  IF p.thrown THEN [thrown |-> TRUE]
  ELSE [thrown |-> FALSE,
        graph  |-> [nodes |-> [i \in 1..Len(workflow.steps) |->
                                 stepToNode(workflow.steps[i],
                                            p.positions[workflow.steps[i].id])],
                    edges |-> generateEdges(workflow.steps)]]

workflowToGraph(workflow, options) ==
  GraphOfPositions(workflow, calculateNodePositions(workflow.steps, MergeOptions(options)))

(***************************************************************************)
(* Validation.                                                             *)
(***************************************************************************)
Quoted(s) == "\"" \o s \o "\""

RECURSIVE Flatten(_)
Flatten(seqs) == IF seqs = <<>> THEN <<>> ELSE Head(seqs) \o Flatten(Tail(seqs))

\* errors.join('; ')
RECURSIVE Join(_, _)
Join(strs, sep) ==
  IF strs = <<>> THEN ""
  ELSE IF Len(strs) = 1 THEN strs[1]
  ELSE strs[1] \o sep \o Join(Tail(strs), sep)

NodeIds(nodes) == {nodes[i].id : i \in 1..Len(nodes)}

\* The reference checks with the target check left out.
EdgeErrorsSourceOnly(nodeIds, e) ==
  IF e.source \notin nodeIds
  THEN <<"Edge " \o Quoted(e.id) \o " references non-existent source node "
         \o Quoted(e.source)>>
  ELSE <<>>

\* The two reference checks of one edge.
EdgeErrors(nodeIds, e) ==
  (IF e.source \notin nodeIds
   THEN <<"Edge " \o Quoted(e.id) \o " references non-existent source node "
          \o Quoted(e.source)>>
   ELSE <<>>)
  \o
  (IF e.target \notin nodeIds
   THEN <<"Edge " \o Quoted(e.id) \o " references non-existent target node "
          \o Quoted(e.target)>>
   ELSE <<>>)

SelfLoop(e) ==
  IF e.source = e.target
  THEN <<"Edge " \o Quoted(e.id) \o " is a self-loop">> ELSE <<>>

\* edgeKeys holds the keys of the edges before k
DuplicateEdge(edges, k) ==
  IF \E j \in 1..(k - 1) :
       edges[j].source = edges[k].source /\ edges[j].target = edges[k].target
  THEN <<"Duplicate edge from " \o Quoted(edges[k].source) \o " to "
         \o Quoted(edges[k].target)>>
  ELSE <<>>

ConnectedNodes(edges) ==
  {edges[k].source : k \in 1..Len(edges)} \cup {edges[k].target : k \in 1..Len(edges)}

\* The isolated-node check without the test for more than one node.
DisconnectedAnyCount(nodes, connectedNodes, n) ==
  IF n.id \notin connectedNodes
  THEN <<"Node " \o Quoted(n.id) \o " is not connected to any other node">>
  ELSE <<>>

Disconnected(nodes, connectedNodes, n) ==
  IF n.id \notin connectedNodes /\ Len(nodes) > 1
  THEN <<"Node " \o Quoted(n.id) \o " is not connected to any other node">>
  ELSE <<>>

\* The errors with the later checks skipped once the graph has no nodes.
GraphErrorsShortCircuit(nodes, edges) ==
  IF Len(nodes) = 0 THEN <<"Graph has no nodes">>
  ELSE (IF Cardinality(NodeIds(nodes)) # Len(nodes)
        THEN <<"Graph contains duplicate node IDs">> ELSE <<>>)
       \o Flatten([k \in 1..Len(edges) |-> EdgeErrors(NodeIds(nodes), edges[k])])

GraphErrors(nodes, edges) ==
  (IF Len(nodes) = 0 THEN <<"Graph has no nodes">> ELSE <<>>)
  \o (IF Cardinality(NodeIds(nodes)) # Len(nodes)
      THEN <<"Graph contains duplicate node IDs">> ELSE <<>>)
  \o Flatten([k \in 1..Len(edges) |-> EdgeErrors(NodeIds(nodes), edges[k])])

GraphWarnings(nodes, edges) ==
  Flatten([k \in 1..Len(edges) |-> SelfLoop(edges[k])])
  \o Flatten([k \in 1..Len(edges) |-> DuplicateEdge(edges, k)])
  \o Flatten([i \in 1..Len(nodes) |-> Disconnected(nodes, ConnectedNodes(edges), nodes[i])])

\* The result with warnings counted against validity.
ValidationOfNoWarnings(errors, warnings) ==
  [isValid |-> Len(errors) = 0 /\ Len(warnings) = 0, errors |-> errors, warnings |-> warnings]

\* return { isValid: errors.length === 0, errors, warnings }
ValidationOf(errors, warnings) ==
  [isValid |-> Len(errors) = 0, errors |-> errors, warnings |-> warnings]

validateGraph(graph) ==
  ValidationOf(GraphErrors(graph.nodes, graph.edges), GraphWarnings(graph.nodes, graph.edges))

(***************************************************************************)
(* Main conversion function.                                               *)
(***************************************************************************)
\* The steps after the empty-input guard: parse, convert, validate.
\* A result carries only the fields the taken return statement sets.
\* Step 3: the result for the validation of the graph.
ResultOfValidation(parsedWorkflow, graph, validation) ==
  IF ~validation.isValid
  THEN [success   |-> FALSE,
        error     |-> Join(validation.errors, "; "),
        rawParsed |-> parsedWorkflow]
  ELSE [success   |-> TRUE,
        graph     |-> graph,
        rawParsed |-> parsedWorkflow]

\* Step 2: the result for the outcome g of workflowToGraph.
ResultOfGraph(parsedWorkflow, g) ==
  IF g.thrown
  \* catch (error): the RangeError of the overflowed call stack
  THEN [success |-> FALSE, error |-> "Maximum call stack size exceeded"]
  ELSE ResultOfValidation(parsedWorkflow, g.graph, validateGraph(g.graph))

\* Step 1 without the test for an empty list of steps.
ResultOfParseUnguarded(parsedWorkflow, options) ==
  ResultOfGraph(parsedWorkflow, workflowToGraph(parsedWorkflow, options))

\* Step 1: the result for the parsed workflow.
ResultOfParse(parsedWorkflow, options) ==
  IF Len(parsedWorkflow.steps) = 0
  THEN [success |-> FALSE,
        error   |-> "Could not parse any workflow steps from the text"]
  ELSE ResultOfGraph(parsedWorkflow, workflowToGraph(parsedWorkflow, options))

ConvertText(text, options) == ResultOfParse(parseSimpleText(text), options)

\* The guard without its trim test.
IsEmptyInputNoTrim(text) == text = ""

\* !text || text.trim().length === 0
IsEmptyInput(text) == text = "" \/ Len(Trim(text)) = 0

textToGraph(text, options) ==
  IF IsEmptyInput(text)
  THEN [success |-> FALSE, error |-> "Empty text input"]
  ELSE ConvertText(text, options)

\* The parts parseSimpleText splits the text into when textToGraph gets as
\* far as calling it.
ParsedParts(text) == IF IsEmptyInput(text) THEN <<>> ELSE SplitParts(Trim(text))

(***************************************************************************)
(* Inputs.                                                                 *)
(***************************************************************************)
\* The pieces generated texts are made of: plain, entry-keyword and
\* exit-keyword words, an ordinal marker, and every separator the format
\* cascade looks for, the word "then" in two letter cases.
Pieces == {"A", "Start", "End", "1.", " ", "->", "\n", ",", " then ", " THEN "}

\* The texts of T, and each with one more piece.
Extended(T) == T \cup {t \o p : t \in T, p \in Pieces}

RECURSIVE TextsUpTo(_)
TextsUpTo(n) ==
  IF n = 0 THEN {""}
  ELSE Extended(TextsUpTo(n - 1))

\* The texts of the repository's test suite and of the specification.
ExampleTexts ==
  {"Start -> Process -> End",
   "Input Data, Process Data, Output Results",
   "1. Receive Order\n2. Validate Payment\n3. Process Order\n4. Ship Package",
   "Get user input then validate data then save to database",
   "Start process -> Handle data -> Complete task",
   "Process Data",
   "A -> B -> C",
   "First -> Second -> Third",
   "\n    Receive Request ->\n    Authenticate User ->\n    Validate Input ->\n    Process Data ->\n    Save to Database ->\n    Send Response\n  ",
   "A -> B, C",
   "A THEN B",
   "A Then B",
   "A then B",
   "1) A\n2) B",
   "1. A\n 2. B\n3.",
   "   "}

Texts == TextsUpTo(MaxPieces) \cup ExampleTexts

\* The options the example texts are also converted with.
TextOptions == {[direction |-> d] : d \in {"TB", "BT", "LR", "RL"}}

\* The names detectStepType is called with on its own.
ClassifierNames == {"A", "Start wrap-up", "START", "End", "Send", "begin end", "Process Data"}

\* The id of a step that is in no workflow.
MissingId == "missing"

\* The subsets of 1..m of exactly k elements, each built in ascending order.
RECURSIVE SubsetsOfSize(_, _)
SubsetsOfSize(m, k) ==
  IF k = 0 THEN {{}}
  ELSE UNION {{q \cup {x} : x \in ((IF q = {} THEN 0 ELSE Max(q)) + 1)..m}
                : q \in SubsetsOfSize(m, k - 1)}

\* The subsets of 1..m of at most k elements.
SubsetsUpTo(m, k) == UNION {SubsetsOfSize(m, j) : j \in 0..k}

\* The dependency ids a step of an n-step workflow can name, in a fixed order.
DepUniverse(n) == [k \in 1..(n + 1) |-> IF k = n + 1 THEN MissingId ELSE StepId(k)]

\* The entries of universe whose index is in K, in order.
RECURSIVE Pick(_, _, _)
Pick(universe, K, k) ==
  IF k > Len(universe) THEN <<>>
  ELSE (IF k \in K THEN <<universe[k]>> ELSE <<>>) \o Pick(universe, K, k + 1)

Reverse(q) == [k \in 1..Len(q) |-> q[Len(q) + 1 - k]]

Ordered(q, rev) == IF rev THEN Reverse(q) ELSE q

\* Externally constructed workflows (the ParsedWorkflow an AI response is
\* converted to): n <= MaxSteps steps with ids step-1..step-n, each with at
\* most MaxDeps dependency ids, existing or missing, at most MaxEdges in all.
\* Dependency e of 1..n*(n+1) is step ((e-1) \div (n+1)) + 1 naming entry
\* ((e-1) % (n+1)) + 1 of the universe; rev lists each step's ids backwards.
MaxEdges == 3

Workflow(n, D, rev) ==
  [steps |-> [i \in 1..n |->
     [id           |-> StepId(i),
      name         |-> "Step",
      type         |-> "default",
      dependencies |->
        Ordered(Pick(DepUniverse(n),
                     {((e - 1) % (n + 1)) + 1 : e \in {d \in D : ((d - 1) \div (n + 1)) + 1 = i}},
                     1),
                rev)]]]

DependencySets(n) ==
  {E \in SubsetsUpTo(n * (n + 1), MaxEdges) :
     \A i \in 1..n : Cardinality({d \in E : ((d - 1) \div (n + 1)) + 1 = i}) <= MaxDeps}

\* The options workflowToGraph is called with: omitted, or a direction.
WorkflowOptions == {<<>>} \cup TextOptions

Null == [pending |-> TRUE]

(***************************************************************************)
(* The conversion as a state machine: a call is chosen, then it returns.   *)
(* aux holds values the call computed on the way, for the properties only. *)
(***************************************************************************)
Init ==
  /\ pc = "called"
  /\ ret = Null
  /\ aux = Null
  /\ mem = Null
  /\ \/ \E t \in Texts :
          call = [fn |-> "textToGraph", text |-> t, options |-> <<>>]
     \/ \E t \in ExampleTexts, o \in TextOptions :
          call = [fn |-> "textToGraph", text |-> t, options |-> o]
     \/ \E nm \in ClassifierNames, total \in 1..MaxTotal :
          \E index \in 0..(total - 1) :
            call = [fn |-> "detectStepType", name |-> nm, index |-> index, total |-> total]

TextToGraph ==
  /\ pc = "called"
  /\ call.fn = "textToGraph"
  /\ ret' = textToGraph(call.text, call.options)
  /\ aux' = [parts |-> ParsedParts(call.text)]
  /\ pc' = "returned"
  /\ UNCHANGED <<call, mem>>

DetectStepType ==
  /\ pc = "called"
  /\ call.fn = "detectStepType"
  /\ ret' = [type |-> detectStepType(call.name, call.index, call.total)]
  /\ pc' = "returned"
  /\ UNCHANGED <<call, aux, mem>>

Next == TextToGraph \/ DetectStepType

Spec == Init /\ [][Next]_vars

\* workflowToGraph called with externally constructed workflows.
InitWorkflow ==
  /\ pc = "called"
  /\ ret = Null
  /\ aux = Null
  /\ mem = Null
  /\ \E n \in 0..MaxSteps : \E D \in DependencySets(n) :
       \/ \E o \in WorkflowOptions :
            call = [fn |-> "workflowToGraph", workflow |-> Workflow(n, D, FALSE), options |-> o]
       \/ call = [fn |-> "workflowToGraph", workflow |-> Workflow(n, D, TRUE), options |-> <<>>]

\* The locals of calculateNodePositions the properties speak of.
LocalsOf(p) == [levels |-> p.levels, depth |-> p.depth]

WorkflowToGraph ==
  /\ pc = "called"
  /\ call.fn = "workflowToGraph"
  /\ ret' = workflowToGraph(call.workflow, call.options)
  /\ aux' = LocalsOf(calculateNodePositions(call.workflow.steps, MergeOptions(call.options)))
  /\ pc' = "returned"
  /\ UNCHANGED <<call, mem>>

NextWorkflow == WorkflowToGraph

SpecWorkflow == InitWorkflow /\ [][NextWorkflow]_vars

(***************************************************************************)
(* workflowToGraph and textToGraph side by side, for the layout: the       *)
(* externally constructed workflows, and the example texts with every      *)
(* choice of options.                                                      *)
(***************************************************************************)
InitLayout ==
  /\ pc = "called"
  /\ ret = Null
  /\ aux = Null
  /\ mem = Null
  /\ \/ \E n \in 0..MaxSteps : \E D \in DependencySets(n) : \E o \in WorkflowOptions :
          call = [fn |-> "workflowToGraph", workflow |-> Workflow(n, D, FALSE), options |-> o]
     \/ \E t \in ExampleTexts, o \in WorkflowOptions :
          call = [fn |-> "textToGraph", text |-> t, options |-> o]

NextLayout == TextToGraph \/ WorkflowToGraph

SpecLayout == InitLayout /\ [][NextLayout]_vars

(***************************************************************************)
(* validateGraph called with hand-built graphs.                            *)
(***************************************************************************)
\* Number of nodes and of edges of a hand-built graph.
MaxNodes == 2
MaxGraphEdges == 3

\* The node ids of hand-built graphs, and the ids their edges name.
NodeIdUniverse == {"n1", "n2"}
EndpointUniverse == NodeIdUniverse \cup {"nonexistent"}

\* The sequences over S of at most n elements.
SeqsUpTo(S, n) == UNION {[1..k -> S] : k \in 0..n}

HandNode(id) ==
  [id       |-> id,
   type     |-> "default",
   position |-> [x |-> Fin(0), y |-> Fin(0)],
   data     |-> [label |-> "Test"]]

HandEdge(k, ends) == [id |-> "e" \o ToString(k), source |-> ends[1], target |-> ends[2]]

HandGraph(ids, ends) ==
  [nodes |-> [i \in 1..Len(ids) |-> HandNode(ids[i])],
   edges |-> [k \in 1..Len(ends) |-> HandEdge(k, ends[k])]]

InitValidate ==
  /\ pc = "called"
  /\ ret = Null
  /\ aux = Null
  /\ mem = Null
  /\ \E ids \in SeqsUpTo(NodeIdUniverse, MaxNodes) :
       \E ends \in SeqsUpTo(EndpointUniverse \X EndpointUniverse, MaxGraphEdges) :
         call = [fn |-> "validateGraph", graph |-> HandGraph(ids, ends)]

ValidateGraph ==
  /\ pc = "called"
  /\ call.fn = "validateGraph"
  /\ ret' = validateGraph(call.graph)
  /\ pc' = "returned"
  /\ UNCHANGED <<call, aux, mem>>

NextValidate == ValidateGraph

SpecValidate == InitValidate /\ [][NextValidate]_vars

(***************************************************************************)
(* A session: textToGraph called several times in a row.  The module keeps *)
(* no variable between calls; aux.log records each call with its result.   *)
(***************************************************************************)
\* Number of calls of a session.
MaxCalls == 3

SessionTexts == {"A -> B -> C", "Start, End", "", ","}

SessionOptions == {<<>>, [direction |-> "LR"]}

InitSession ==
  /\ pc = "idle"
  /\ call = Null
  /\ ret = Null
  /\ aux = [log |-> <<>>]
  /\ mem = Null

CallTextToGraph ==
  /\ pc = "idle"
  /\ Len(aux.log) < MaxCalls
  /\ \E t \in SessionTexts, o \in SessionOptions :
       call' = [fn |-> "textToGraph", text |-> t, options |-> o]
  /\ pc' = "called"
  /\ UNCHANGED <<ret, aux, mem>>

ReturnTextToGraph ==
  /\ pc = "called"
  /\ ret' = textToGraph(call.text, call.options)
  /\ aux' = [log |-> Append(aux.log, [call |-> call, ret |-> ret'])]
  /\ pc' = "idle"
  /\ UNCHANGED <<call, mem>>

NextSession == CallTextToGraph \/ ReturnTextToGraph

SpecSession == InitSession /\ [][NextSession]_vars

(***************************************************************************)
(* Properties of textToGraph (specification Spec).                         *)
(***************************************************************************)
TextReturned == pc = "returned" /\ call.fn = "textToGraph"

\* The number of places sub occurs at in s.
CountOf(s, sub) ==
  Cardinality({i \in 1..(Len(s) - Len(sub) + 1) : SubSeq(s, i, i + Len(sub) - 1) = sub})

RECURSIVE SumCount(_, _)
SumCount(parts, sub) ==
  IF parts = <<>> THEN 0 ELSE CountOf(Head(parts), sub) + SumCount(Tail(parts), sub)

\* The positions of s taken by an occurrence of "->".
ArrowPositions(s) ==
  {i \in 1..Len(s) :
     \/ Char(s, i) = "-" /\ i < Len(s) /\ Char(s, i + 1) = ">"
     \/ Char(s, i) = ">" /\ i > 1 /\ Char(s, i - 1) = "-"}

CharPositions(s, c) == {i \in 1..Len(s) : Char(s, i) = c}

\* The number of fields of s, delimited by the separator positions P, that
\* hold a character other than whitespace: the positions of such a
\* character with nothing but whitespace between it and the separator (or
\* the start of s) before it.
FieldCount(s, P) ==
  Cardinality({i \in (1..Len(s)) \ P :
                 /\ ~IsSpace(Char(s, i))
                 /\ \A j \in 1..(i - 1) :
                      (\A k \in j..(i - 1) : k \notin P) => IsSpace(Char(s, j))})

HasDigit(s) == \E i \in 1..Len(s) : IsDigit(Char(s, i))

\* The step counts the test suite and the specification state.
ExpectedSegments ==
  [t \in {"Start -> Process -> End", "Input Data, Process Data, Output Results",
          "1. Receive Order\n2. Validate Payment\n3. Process Order\n4. Ship Package",
          "Get user input then validate data then save to database",
          "Process Data", "A -> B -> C", "First -> Second -> Third",
          "\n    Receive Request ->\n    Authenticate User ->\n    Validate Input ->\n    Process Data ->\n    Save to Database ->\n    Send Response\n  ",
          "A -> B, C"} |->
     IF t \in {"Process Data"} THEN 1
     ELSE IF t \in {"A -> B, C"} THEN 2
     ELSE IF Includes(t, "Ship Package") THEN 4
     ELSE IF Includes(t, "Send Response") THEN 6
     ELSE 3]

ExpectedIds == <<"step-1", "step-2", "step-3", "step-4", "step-5", "step-6", "step-7", "step-8">>

\* C1: a text that yields n >= 1 non-empty segments converts successfully
\* to exactly n nodes and n - 1 edges; n is the number of non-blank fields
\* between the separators of the arrow, newline and comma formats, and the
\* number the test suite states for its texts.
C1_StepCount ==
  TextReturned =>
    LET n == Len(aux.parts)
        t == Trim(call.text)
    IN  /\ n >= 1 =>
             /\ ret.success
             /\ Len(ret.graph.nodes) = n
             /\ Len(ret.graph.edges) = n - 1
        /\ CountOf(t, "->") > 0 => n = FieldCount(t, ArrowPositions(t))
        /\ CountOf(t, "->") = 0 /\ CountOf(t, "\n") > 0 /\ ~HasDigit(t) =>
             n = FieldCount(t, CharPositions(t, "\n"))
        /\ CountOf(t, "->") = 0 /\ CountOf(t, "\n") = 0 /\ CountOf(t, ",") > 0 =>
             n = FieldCount(t, CharPositions(t, ","))
        /\ call.text \in DOMAIN ExpectedSegments => n = ExpectedSegments[call.text]

C1_Witness ==
  /\ TextReturned
  /\ call.text = "Get user input then validate data then save to database"
  /\ ret.success
  /\ Len(ret.graph.nodes) = 3
  /\ Len(ret.graph.edges) = 2

\* C2: the i-th surviving segment is the step with id "step-i"; step-1 has
\* no dependencies and step-i has the one dependency "step-(i-1)"; the k-th
\* edge goes from "step-k" to "step-(k+1)".
C2_LinearChain ==
  TextReturned /\ ret.success =>
    LET st == ret.rawParsed.steps
        ed == ret.graph.edges
    IN  /\ Len(st) = Len(aux.parts)
        /\ Len(ret.graph.nodes) = Len(st)
        /\ \A i \in 1..Len(st) :
             /\ st[i].id = ExpectedIds[i]
             /\ st[i].name = aux.parts[i]
             /\ ret.graph.nodes[i].id = ExpectedIds[i]
             /\ st[i].dependencies = IF i = 1 THEN <<>> ELSE <<ExpectedIds[i - 1]>>
        /\ Len(ed) = Len(st) - 1
        /\ \A k \in 1..Len(ed) :
             ed[k].source = ExpectedIds[k] /\ ed[k].target = ExpectedIds[k + 1]

C2_Witness ==
  /\ TextReturned
  /\ call.text = "First -> Second -> Third"
  /\ ret.success
  /\ ret.graph.edges[2].source = "step-2"
  /\ ret.graph.edges[2].target = "step-3"

\* C3: every edge of a produced graph joins two node ids of the graph and
\* validateGraph reports no error on it; textToGraph never returns from its
\* validation-failed branch (the one failure that carries rawParsed), and
\* succeeds for every text that yields at least one segment.
C3_IdIntegrity ==
  TextReturned =>
    /\ ret.success =>
         LET ids == {ret.graph.nodes[i].id : i \in 1..Len(ret.graph.nodes)}
         IN  /\ \A k \in 1..Len(ret.graph.edges) :
                  ret.graph.edges[k].source \in ids /\ ret.graph.edges[k].target \in ids
             /\ validateGraph(ret.graph).errors = <<>>
    /\ "rawParsed" \in DOMAIN ret => ret.success
    /\ Len(aux.parts) >= 1 => ret.success

C3_Witness ==
  /\ TextReturned
  /\ ret.success
  /\ Len(ret.graph.edges) >= 5

\* C4: the empty string and a string of whitespace only give success:false
\* with a non-empty error and no graph field.
C4_EmptyInput ==
  TextReturned /\ (\A i \in 1..Len(call.text) : IsSpace(Char(call.text, i))) =>
    /\ ret.success = FALSE
    /\ ret.error # ""
    /\ "graph" \notin DOMAIN ret

C4_Witness ==
  /\ TextReturned
  /\ call.text = "   "
  /\ ret.success = FALSE

\* C5: the splitter is the first of arrow, newline, comma, " then ", single
\* whose separator the trimmed text contains; the separators of the formats
\* after it are not split at and stay in the segment names.
C5_FormatPriority ==
  TextReturned /\ ~IsEmptyInput(call.text) =>
    LET t == Trim(call.text)
        parts == aux.parts
        arrow == CountOf(t, "->") > 0
        newline == CountOf(t, "\n") > 0
        comma == CountOf(t, ",") > 0
        then == CountOf(t, " then ") > 0
    IN  /\ arrow =>
             /\ \A i \in 1..Len(parts) : CountOf(parts[i], "->") = 0
             /\ SumCount(parts, ",") = CountOf(t, ",")
             /\ Len(parts) = FieldCount(t, ArrowPositions(t))
        /\ ~arrow /\ newline =>
             /\ \A i \in 1..Len(parts) : CountOf(parts[i], "\n") = 0
             /\ SumCount(parts, ",") = CountOf(t, ",")
             /\ Len(parts) <= CountOf(t, "\n") + 1
        /\ ~arrow /\ ~newline /\ comma =>
             /\ \A i \in 1..Len(parts) : CountOf(parts[i], ",") = 0
             /\ SumCount(parts, "then") = CountOf(t, "then")
             /\ Len(parts) = FieldCount(t, CharPositions(t, ","))
        /\ ~arrow /\ ~newline /\ ~comma /\ then =>
             /\ \A i \in 1..Len(parts) : CountOf(parts[i], " then ") = 0
             /\ Len(parts) >= 2
        /\ ~arrow /\ ~newline /\ ~comma /\ ~then => parts = <<t>>
        /\ call.text = "A -> B, C" => parts = <<"A", "B, C">>

C5_Witness ==
  /\ TextReturned
  /\ call.text = "A -> B, C"
  /\ ret.success
  /\ Len(ret.graph.nodes) = 2
  /\ ret.graph.nodes[2].data.label = "B, C"

\* C6: a text without "->", newline and comma that holds the word "then"
\* between spaces in any letter case is split into several steps there.
C6_ThenAnyCase ==
  ( /\ TextReturned
    /\ ~IsEmptyInput(call.text)
    /\ CountOf(call.text, "->") = 0
    /\ CountOf(Trim(call.text), "\n") = 0
    /\ CountOf(call.text, ",") = 0
    /\ CountOf(ToLowerCase(Trim(call.text)), " then ") > 0 )
  => /\ Len(aux.parts) >= 2
     /\ ret.success
     /\ Len(ret.graph.nodes) = Len(aux.parts)

EntryKeywords == {"start", "input", "receive", "trigger", "begin"}
ExitKeywords == {"end", "output", "finish", "complete", "send", "deliver", "return"}

HasKeyword(name, keywords) == \E k \in keywords : CountOf(ToLowerCase(name), k) > 0

\* The rule of the classifier as the specification words it.
ClassifierRule(name, index, total) ==
  IF index = 0 \/ HasKeyword(name, EntryKeywords) THEN "input"
  ELSE IF index = total - 1 \/ HasKeyword(name, ExitKeywords) THEN "output"
  ELSE "default"

\* C7: the classifier answers entry for index 0 or an entry keyword, else
\* exit for the last index or an exit keyword, else intermediate; an entry
\* keyword beats the last position, the first step of a parse is entry, and
\* "Process Data" gives one entry node and no edge.
C7_Classifier ==
  /\ pc = "returned" /\ call.fn = "detectStepType" =>
       /\ ret.type = ClassifierRule(call.name, call.index, call.total)
       /\ call.name = "Start wrap-up" /\ call.index = 3 /\ call.total = 4 =>
            ret.type = "input"
  /\ TextReturned /\ ret.success =>
       LET st == ret.rawParsed.steps
       IN  /\ \A i \in 1..Len(st) :
                /\ st[i].type = ClassifierRule(aux.parts[i], i - 1, Len(aux.parts))
                /\ ret.graph.nodes[i].type = st[i].type
           /\ ret.graph.nodes[1].type = "input"
  /\ TextReturned /\ call.text = "Process Data" =>
       /\ ret.success
       /\ Len(ret.graph.nodes) = 1
       /\ ret.graph.nodes[1].type = "input"
       /\ ret.graph.edges = <<>>

C7_Witness ==
  /\ pc = "returned"
  /\ call.fn = "detectStepType"
  /\ call.name = "Start wrap-up"
  /\ call.index = 3
  /\ call.total = 4
  /\ ret.type = "input"

(***************************************************************************)
(* Properties of workflowToGraph (specification SpecWorkflow).             *)
(***************************************************************************)
WorkflowReturned == pc = "returned" /\ call.fn = "workflowToGraph"

StepIdsOf(steps) == {steps[i].id : i \in 1..Len(steps)}

\* The dependencies of step i that are steps of the workflow.
ExistingDeps(steps, i) ==
  {steps[i].dependencies[k] : k \in 1..Len(steps[i].dependencies)} \cap StepIdsOf(steps)

\* The ids reached from the ids of S along at most k dependency links.
RECURSIVE ReachedWithin(_, _, _)
ReachedWithin(steps, S, k) ==
  IF k = 0 THEN S
  ELSE ReachedWithin(steps,
         S \cup UNION {ExistingDeps(steps, i) : i \in {j \in 1..Len(steps) : steps[j].id \in S}},
         k - 1)

Acyclic(steps) ==
  \A i \in 1..Len(steps) :
    steps[i].id \notin ReachedWithin(steps, ExistingDeps(steps, i), Len(steps))

IsChain(steps) ==
  \A i \in 1..Len(steps) :
    /\ steps[i].id = ExpectedIds[i]
    /\ steps[i].dependencies = IF i = 1 THEN <<>> ELSE <<ExpectedIds[i - 1]>>

\* C8: in an acyclic step set a step without dependencies has level 0 and a
\* step with dependencies among the steps has one more than the greatest of
\* their levels; in the parser's chain step-i has level i - 1.
C8_Levels ==
  WorkflowReturned /\ Acyclic(call.workflow.steps) =>
    LET steps == call.workflow.steps
    IN  /\ ~ret.thrown
        /\ \A i \in 1..Len(steps) :
             /\ steps[i].dependencies = <<>> => aux.levels[steps[i].id] = Fin(0)
             /\ ExistingDeps(steps, i) # {} =>
                  \E d \in ExistingDeps(steps, i) :
                    /\ \A e \in ExistingDeps(steps, i) :
                         ~NumLess(aux.levels[d], aux.levels[e])
                    /\ aux.levels[steps[i].id] = NumAdd(aux.levels[d], Fin(1))
        /\ IsChain(steps) =>
             \A i \in 1..Len(steps) : aux.levels[ExpectedIds[i]] = Fin(i - 1)

C8_Witness ==
  /\ WorkflowReturned
  /\ Acyclic(call.workflow.steps)
  /\ Len(call.workflow.steps) = 3
  /\ call.workflow.steps[3].dependencies = <<"step-1", "step-2">>
  /\ aux.levels["step-1"] = Fin(0)
  /\ aux.levels["step-2"] = Fin(1)
  /\ aux.levels["step-3"] = Fin(2)

\* C9: a step all of whose dependencies name no step of the set gets level
\* 0 and finite coordinates, like a step without dependencies.
C9_MissingDependencyLevelZero ==
  WorkflowReturned /\ ~ret.thrown =>
    \A i \in 1..Len(call.workflow.steps) :
      ( /\ call.workflow.steps[i].dependencies # <<>>
        /\ ExistingDeps(call.workflow.steps, i) = {} )
      => /\ aux.levels[call.workflow.steps[i].id] = Fin(0)
         /\ IsFinite(ret.graph.nodes[i].position.x)
         /\ IsFinite(ret.graph.nodes[i].position.y)

\* C10: level assignment detects a revisit: getLevel is never nested deeper
\* than one frame per step and the frame that meets the revisit.
C10_CycleGuard ==
  WorkflowReturned => aux.depth <= Len(call.workflow.steps) + 1

(***************************************************************************)
(* Properties of the layout (specification SpecLayout).                    *)
(***************************************************************************)
\* The direction a call lays its graph out in: TB when options omit it.
DirectionOf(options) == IF "direction" \in DOMAIN options THEN options.direction ELSE "TB"

IsReversedDirection(d) == d \in {"BT", "RL"}

\* start + L * 150 for a level L that may be infinite.
PrimaryCoordinate(start, L) == IF IsFinite(L) THEN Fin(start + 150 * L.n) ELSE L

\* The coordinates of the formula for adjusted level L and sibling offset o.
FormulaPosition(d, L, o) ==
  IF d \in {"TB", "BT"}
  THEN [x |-> Fin(250 + o), y |-> PrimaryCoordinate(50, L)]
  ELSE [x |-> PrimaryCoordinate(250, L), y |-> Fin(50 + o)]

\* m - a for a level a that may be infinite.
FlipLevel(m, a) == IF IsFinite(a) THEN Fin(m - a.n) ELSE [inf |-> 0 - a.inf, n |-> 0]

\* The level of step i of the returned workflow call.
CallLevel(i) == aux.levels[call.workflow.steps[i].id]

\* The steps sharing the level of step i, and how many levels there are.
CallSiblings(i) == {j \in 1..Len(call.workflow.steps) : CallLevel(j) = CallLevel(i)}

CallLevelCount == Cardinality({CallLevel(i) : i \in 1..Len(call.workflow.steps)})

CallAdjustedLevel(i) ==
  IF IsReversedDirection(DirectionOf(call.options))
  THEN FlipLevel(CallLevelCount - 1, CallLevel(i))
  ELSE CallLevel(i)

\* (k - (g - 1) / 2) * 200 for the k-th of g siblings.
SiblingOffset(k, g) == 200 * k - 100 * (g - 1)

CallOffset(i) ==
  SiblingOffset(Cardinality({j \in CallSiblings(i) : j < i}), Cardinality(CallSiblings(i)))

NodeById(graph, id) == graph.nodes[CHOOSE i \in 1..Len(graph.nodes) : graph.nodes[i].id = id]

\* C11: x and y follow the coordinate formula for the adjusted level and the
\* sibling offset, with direction TB, spacings 200 and 150 and start (250, 50)
\* when options are omitted; the i-th node (0-based) of a chain converted
\* with default options is at (250, 50 + 150 i), every coordinate is
\* positive and each edge's target is below its source.
C11_CoordinateFormula ==
  /\ WorkflowReturned /\ ~ret.thrown =>
       \A i \in 1..Len(call.workflow.steps) :
         ret.graph.nodes[i].position
           = FormulaPosition(DirectionOf(call.options), CallAdjustedLevel(i), CallOffset(i))
  /\ TextReturned /\ ret.success =>
       \A i \in 1..Len(ret.graph.nodes) :
         ret.graph.nodes[i].position
           = FormulaPosition(DirectionOf(call.options),
                             Fin(IF IsReversedDirection(DirectionOf(call.options))
                                 THEN Len(ret.graph.nodes) - i ELSE i - 1),
                             0)
  /\ TextReturned /\ ret.success /\ call.options = <<>> =>
       /\ \A i \in 1..Len(ret.graph.nodes) :
            /\ ret.graph.nodes[i].position = [x |-> Fin(250), y |-> Fin(50 + 150 * (i - 1))]
            /\ ret.graph.nodes[i].position.x.n > 0
            /\ ret.graph.nodes[i].position.y.n > 0
       /\ \A k \in 1..Len(ret.graph.edges) :
            NumLess(NodeById(ret.graph, ret.graph.edges[k].source).position.y,
                    NodeById(ret.graph, ret.graph.edges[k].target).position.y)

C11_Witness ==
  /\ WorkflowReturned
  /\ ~ret.thrown
  /\ call.options = [direction |-> "LR"]
  /\ Len(call.workflow.steps) = 3
  /\ call.workflow.steps[2].dependencies = <<"step-1">>
  /\ call.workflow.steps[3].dependencies = <<"step-1">>
  /\ ret.graph.nodes[1].position = [x |-> Fin(250), y |-> Fin(50)]
  /\ ret.graph.nodes[2].position = [x |-> Fin(400), y |-> Fin(-50)]
  /\ ret.graph.nodes[3].position = [x |-> Fin(400), y |-> Fin(150)]

(***************************************************************************)
(* Properties of validateGraph (specification SpecValidate).               *)
(***************************************************************************)
ValidateReturned == pc = "returned" /\ call.fn = "validateGraph"

GraphNodeIds(g) == {g.nodes[i].id : i \in 1..Len(g.nodes)}

\* The edges of g whose source, or whose target, is the id of no node.
DanglingSources(g) == {k \in 1..Len(g.edges) : g.edges[k].source \notin GraphNodeIds(g)}

DanglingTargets(g) == {k \in 1..Len(g.edges) : g.edges[k].target \notin GraphNodeIds(g)}

HasDuplicateNodeIds(g) ==
  \E i, j \in 1..Len(g.nodes) : i < j /\ g.nodes[i].id = g.nodes[j].id

\* Nothing in g that is an error.
ErrorFree(g) ==
  /\ Len(g.nodes) > 0
  /\ ~HasDuplicateNodeIds(g)
  /\ DanglingSources(g) = {}
  /\ DanglingTargets(g) = {}

\* Something in g that is a warning: a self-loop, a repeated edge or an
\* isolated node among several.
HasWarningCause(g) ==
  \/ \E k \in 1..Len(g.edges) : g.edges[k].source = g.edges[k].target
  \/ \E j, k \in 1..Len(g.edges) :
       j < k /\ g.edges[j].source = g.edges[k].source /\ g.edges[j].target = g.edges[k].target
  \/ /\ Len(g.nodes) > 1
     /\ \E i \in 1..Len(g.nodes) : \A k \in 1..Len(g.edges) :
          g.edges[k].source # g.nodes[i].id /\ g.edges[k].target # g.nodes[i].id

\* C12: isValid is true exactly when the errors list is empty, and a graph
\* whose only findings are warnings (self-loop, duplicate edge, isolated
\* node) is valid.
C12_ValidityFlag ==
  ValidateReturned =>
    /\ ret.isValid <=> ret.errors = <<>>
    /\ ErrorFree(call.graph) => ret.isValid /\ ret.errors = <<>>
    /\ ErrorFree(call.graph) /\ HasWarningCause(call.graph) =>
         ret.isValid /\ ret.warnings # <<>>

C12_Witness ==
  /\ ValidateReturned
  /\ Len(call.graph.nodes) = 2
  /\ Len(call.graph.edges) = 2
  /\ call.graph.edges[1].source = "n1" /\ call.graph.edges[1].target = "n1"
  /\ call.graph.edges[2] = [call.graph.edges[1] EXCEPT !.id = "e2"]
  /\ call.graph.nodes[1].id = "n1" /\ call.graph.nodes[2].id = "n2"
  /\ ret.isValid
  /\ ret.errors = <<>>
  /\ Len(ret.warnings) = 4

\* The errors of the list that name the given id in quotes.
ErrorsNaming(errors, kind, edge, id) ==
  {e \in 1..Len(errors) :
     errors[e] = "Edge " \o Quoted(edge) \o " references non-existent " \o kind
                   \o " node " \o Quoted(id)}

\* C13: every edge whose source is no node id has an error naming that
\* source, every edge whose target is no node id has an error naming that
\* target, and a graph with such an edge is not valid.
C13_DanglingEndpoints ==
  ValidateReturned =>
    /\ \A k \in DanglingSources(call.graph) :
         /\ ErrorsNaming(ret.errors, "source", call.graph.edges[k].id,
                         call.graph.edges[k].source) # {}
         /\ \E e \in 1..Len(ret.errors) :
              CountOf(ret.errors[e], Quoted(call.graph.edges[k].source)) > 0
    /\ \A k \in DanglingTargets(call.graph) :
         /\ ErrorsNaming(ret.errors, "target", call.graph.edges[k].id,
                         call.graph.edges[k].target) # {}
         /\ \E e \in 1..Len(ret.errors) :
              CountOf(ret.errors[e], Quoted(call.graph.edges[k].target)) > 0
    /\ DanglingSources(call.graph) \cup DanglingTargets(call.graph) # {} => ~ret.isValid

C13_Witness ==
  /\ ValidateReturned
  /\ Len(call.graph.nodes) = 1
  /\ call.graph.nodes[1].id = "n1"
  /\ Len(call.graph.edges) = 1
  /\ call.graph.edges[1].source = "n1"
  /\ call.graph.edges[1].target = "nonexistent"
  /\ ~ret.isValid
  /\ ret.errors = <<"Edge \"e1\" references non-existent target node \"nonexistent\"">>

(***************************************************************************)
(* Further properties of textToGraph (specification Spec).                 *)
(***************************************************************************)
\* Empty, or whitespace only.
IsBlank(s) == \A i \in 1..Len(s) : IsSpace(Char(s, i))

\* A text of the arrow or of the comma format with no character other than
\* whitespace in any of its fields.
OnlySeparators(t) ==
  \/ CountOf(t, "->") > 0 /\ FieldCount(t, ArrowPositions(t)) = 0
  \/ /\ CountOf(t, "->") = 0 /\ CountOf(t, "\n") = 0 /\ CountOf(t, ",") > 0
     /\ FieldCount(t, CharPositions(t, ",")) = 0

\* C14: a non-blank text no segment of which survives the split fails with
\* the 'could not parse' error, an empty or blank text fails with the
\* 'empty input' error, the two errors differ, and neither result has a
\* graph.
C14_DistinctFailures ==
  TextReturned =>
    /\ ~IsBlank(call.text) /\ (aux.parts = <<>> \/ OnlySeparators(call.text)) =>
         /\ ret = [success |-> FALSE,
                   error   |-> "Could not parse any workflow steps from the text"]
         /\ ret.error # "Empty text input"
    /\ IsBlank(call.text) =>
         ret = [success |-> FALSE, error |-> "Empty text input"]
    /\ ~ret.success => "graph" \notin DOMAIN ret

C14_Witness ==
  /\ TextReturned
  /\ call.text = " -> ->"
  /\ aux.parts = <<>>
  /\ ~ret.success
  /\ ret.error = "Could not parse any workflow steps from the text"
  /\ DOMAIN ret = {"success", "error"}

C16_ResultShape ==
  TextReturned =>
    /\ ret.success =>
         /\ {"graph", "rawParsed"} \subseteq DOMAIN ret
         /\ Len(ret.graph.nodes) = Len(ret.rawParsed.steps)
         /\ \A i \in 1..Len(ret.rawParsed.steps) :
              /\ ret.graph.nodes[i].id = ret.rawParsed.steps[i].id
              /\ ret.graph.nodes[i].data.label = ret.rawParsed.steps[i].name
              /\ ret.graph.nodes[i].type = ret.rawParsed.steps[i].type
    /\ ~ret.success =>
         /\ "error" \in DOMAIN ret
         /\ Len(ret.error) > 0
         /\ "graph" \notin DOMAIN ret

C16_Witness ==
  /\ TextReturned
  /\ call.text = "Start process -> Handle data -> Complete task"
  /\ ret.success
  /\ ret.rawParsed.steps[2].name = "Handle data"
  /\ ret.graph.nodes[2].data.label = "Handle data"
  /\ ret.graph.nodes[2].type = "default"
  /\ ret.graph.nodes[3].type = "output"

\* s without its leading and trailing whitespace.
StripBlanks(s) ==
  IF IsBlank(s) THEN ""
  ELSE SubSeq(s, CHOOSE i \in 1..Len(s) :
                   ~IsSpace(Char(s, i)) /\ \A j \in 1..(i - 1) : IsSpace(Char(s, j)),
                 CHOOSE i \in 1..Len(s) :
                   ~IsSpace(Char(s, i)) /\ \A j \in (i + 1)..Len(s) : IsSpace(Char(s, j)))

\* The n-th smallest element of a set of numbers.
NthOf(S, n) == CHOOSE x \in S : Cardinality({y \in S : y < x}) = n - 1

\* The lines of t: what lies between two neighbouring line breaks, the
\* start and the end of t counting as line breaks.
LineBreaks(t) == {0, Len(t) + 1} \cup CharPositions(t, "\n")

LinesOf(t) ==
  [n \in 1..(Cardinality(LineBreaks(t)) - 1) |->
     SubSeq(t, NthOf(LineBreaks(t), n) + 1, NthOf(LineBreaks(t), n + 1) - 1)]

\* The length of the ordinal marker line starts with: one or more digits,
\* a '.' or ')' and all the whitespace that follows; 0 without a marker.
MarkerLength(line) ==
  IF \E k \in 1..(Len(line) - 1) :
       (\A j \in 1..k : IsDigit(Char(line, j))) /\ Char(line, k + 1) \in {".", ")"}
  THEN CHOOSE m \in 2..Len(line) :
         /\ \E k \in 1..(m - 1) :
              /\ \A j \in 1..k : IsDigit(Char(line, j))
              /\ Char(line, k + 1) \in {".", ")"}
              /\ \A j \in (k + 2)..m : IsSpace(Char(line, j))
         /\ m < Len(line) => ~IsSpace(Char(line, m + 1))
  ELSE 0

\* The label of a line: the text after its marker, blanks at the ends off.
LabelOf(line) == StripBlanks(SubSeq(line, MarkerLength(line) + 1, Len(line)))

IsNonEmpty(s) == s # ""

ExpectedLabels(t) == SelectSeq([n \in 1..Len(LinesOf(t)) |-> LabelOf(LinesOf(t)[n])], IsNonEmpty)

IsNewlineFormat(t) == CountOf(t, "->") = 0 /\ CountOf(t, "\n") > 0

\* C17: in newline format the leading ordinal marker of each line (digits,
\* '.' or ')', optional whitespace) is removed, the text after it is the
\* label, a line with nothing left is dropped; the numbered example gives
\* the four labels and three chained edges.
C17_OrdinalStripping ==
  TextReturned =>
    /\ ~IsBlank(call.text) /\ IsNewlineFormat(StripBlanks(call.text)) =>
         /\ aux.parts = ExpectedLabels(StripBlanks(call.text))
         /\ ret.success =>
              /\ Len(ret.graph.nodes) = Len(aux.parts)
              /\ \A i \in 1..Len(aux.parts) : ret.graph.nodes[i].data.label = aux.parts[i]
    /\ call.text = "1. Receive Order\n2. Validate Payment\n3. Process Order\n4. Ship Package" =>
         /\ ret.success
         /\ [i \in 1..Len(ret.graph.nodes) |-> ret.graph.nodes[i].data.label]
              = <<"Receive Order", "Validate Payment", "Process Order", "Ship Package">>
         /\ [k \in 1..Len(ret.graph.edges) |->
               <<ret.graph.edges[k].source, ret.graph.edges[k].target>>]
              = <<<<"step-1", "step-2">>, <<"step-2", "step-3">>, <<"step-3", "step-4">>>>

C17_Witness ==
  /\ TextReturned
  /\ call.text = "1) A\n2) B"
  /\ call.options = <<>>
  /\ ret.success
  /\ aux.parts = <<"A", "B">>
  /\ ret.graph.nodes[2].data.label = "B"

\* No two elements of the sequence are equal.
PairwiseDistinct(q) == \A i, j \in 1..Len(q) : i # j => q[i] # q[j]

\* C18: within one result the step ids, the node ids and the edge ids are
\* pairwise distinct, no step names itself among its dependencies and no
\* edge is a self-loop.
C18_Uniqueness ==
  TextReturned =>
    /\ "rawParsed" \in DOMAIN ret =>
         /\ PairwiseDistinct([i \in 1..Len(ret.rawParsed.steps) |-> ret.rawParsed.steps[i].id])
         /\ \A i \in 1..Len(ret.rawParsed.steps) :
              \A d \in 1..Len(ret.rawParsed.steps[i].dependencies) :
                ret.rawParsed.steps[i].dependencies[d] # ret.rawParsed.steps[i].id
    /\ ret.success =>
         /\ PairwiseDistinct([i \in 1..Len(ret.graph.nodes) |-> ret.graph.nodes[i].id])
         /\ PairwiseDistinct([k \in 1..Len(ret.graph.edges) |-> ret.graph.edges[k].id])
         /\ \A k \in 1..Len(ret.graph.edges) :
              ret.graph.edges[k].source # ret.graph.edges[k].target

C18_Witness ==
  /\ TextReturned
  /\ call.text = "Input Data, Process Data, Output Results"
  /\ call.options = <<>>
  /\ ret.success
  /\ [i \in 1..3 |-> ret.graph.nodes[i].id] = <<"step-1", "step-2", "step-3">>
  /\ [k \in 1..2 |-> ret.graph.edges[k].id] = <<"edge-0", "edge-1">>
  /\ ret.rawParsed.steps[3].dependencies = <<"step-2">>

(***************************************************************************)
(* Further properties of workflowToGraph (specification SpecWorkflow).     *)
(***************************************************************************)
\* Every dependency id names a step of the set.
Resolvable(steps) ==
  \A i \in 1..Len(steps) : \A d \in 1..Len(steps[i].dependencies) :
    steps[i].dependencies[d] \in StepIdsOf(steps)

\* The largest level assigned in the returned call (levels all finite).
CallMaxLevel ==
  CHOOSE m \in {CallLevel(i).n : i \in 1..Len(call.workflow.steps)} :
    \A i \in 1..Len(call.workflow.steps) : CallLevel(i).n <= m

\* The coordinate along the direction's primary axis, and across it.
PrimaryOf(d, position) == IF d \in {"TB", "BT"} THEN position.y ELSE position.x

CrossOf(d, position) == IF d \in {"TB", "BT"} THEN position.x ELSE position.y

PrimaryStart(d) == IF d \in {"TB", "BT"} THEN 50 ELSE 250

Unreversed(d) == IF d = "BT" THEN "TB" ELSE IF d = "RL" THEN "LR" ELSE d

\* C19: for BT and RL, on an acyclic step set with resolvable dependencies,
\* the levels are 0..maxLevel without gaps, a step at level l has primary
\* coordinate start + (maxLevel - l) * levelSpacing (level 0 the largest,
\* the deepest level start), and its cross-axis coordinate is the one of the
\* non-reversed direction.
C19_ReversedDirections ==
  ( /\ WorkflowReturned
    /\ IsReversedDirection(DirectionOf(call.options))
    /\ Acyclic(call.workflow.steps)
    /\ Resolvable(call.workflow.steps)
    /\ Len(call.workflow.steps) > 0 )
  => /\ ~ret.thrown
     /\ \A i \in 1..Len(call.workflow.steps) : IsFinite(CallLevel(i))
     /\ {CallLevel(i).n : i \in 1..Len(call.workflow.steps)} = 0..CallMaxLevel
     /\ \A i \in 1..Len(call.workflow.steps) :
          /\ PrimaryOf(call.options.direction, ret.graph.nodes[i].position)
               = Fin(PrimaryStart(call.options.direction)
                       + (CallMaxLevel - CallLevel(i).n) * 150)
          /\ CallLevel(i).n = 0 =>
               PrimaryOf(call.options.direction, ret.graph.nodes[i].position)
                 = Fin(PrimaryStart(call.options.direction) + CallMaxLevel * 150)
          /\ CallLevel(i).n = CallMaxLevel =>
               PrimaryOf(call.options.direction, ret.graph.nodes[i].position)
                 = Fin(PrimaryStart(call.options.direction))
          /\ CrossOf(call.options.direction, ret.graph.nodes[i].position)
               = CrossOf(call.options.direction,
                         workflowToGraph(call.workflow,
                                         [direction |-> Unreversed(call.options.direction)])
                           .graph.nodes[i].position)

C19_Witness ==
  /\ WorkflowReturned
  /\ call.options = [direction |-> "BT"]
  /\ Len(call.workflow.steps) = 3
  /\ call.workflow.steps[2].dependencies = <<"step-1">>
  /\ call.workflow.steps[3].dependencies = <<"step-1", "step-2">>
  /\ ~ret.thrown
  /\ ret.graph.nodes[1].position = [x |-> Fin(250), y |-> Fin(350)]
  /\ ret.graph.nodes[2].position = [x |-> Fin(250), y |-> Fin(200)]
  /\ ret.graph.nodes[3].position = [x |-> Fin(250), y |-> Fin(50)]

CrossStart(d) == IF d \in {"TB", "BT"} THEN 250 ELSE 50

\* The cross-axis offset of step i of the returned call from the start.
CallCrossOffset(i) ==
  CrossOf(DirectionOf(call.options), ret.graph.nodes[i].position).n
    - CrossStart(DirectionOf(call.options))

RECURSIVE SumCrossOffsets(_)
SumCrossOffsets(S) ==
  IF S = {} THEN 0
  ELSE CallCrossOffset(CHOOSE i \in S : TRUE)
         + SumCrossOffsets(S \ {CHOOSE i \in S : TRUE})

\* C20: the steps of a level keep the order of the input list; the k-th
\* (0-based) of g siblings has cross-axis offset (k - (g-1)/2) * nodeSpacing,
\* so neighbouring siblings are nodeSpacing apart, the offsets of a group
\* sum to zero and a group of one has offset 0.
C20_SiblingPlacement ==
  WorkflowReturned /\ ~ret.thrown =>
    \A i \in 1..Len(call.workflow.steps) :
      /\ IsFinite(CrossOf(DirectionOf(call.options), ret.graph.nodes[i].position))
      /\ CallCrossOffset(i)
           = SiblingOffset(Cardinality({j \in CallSiblings(i) : j < i}),
                           Cardinality(CallSiblings(i)))
      /\ \A j \in CallSiblings(i) :
           /\ i < j => CallCrossOffset(i) < CallCrossOffset(j)
           /\ i < j /\ (\A m \in CallSiblings(i) : ~(i < m /\ m < j)) =>
                CallCrossOffset(j) - CallCrossOffset(i) = 200
      /\ SumCrossOffsets(CallSiblings(i)) = 0
      /\ CallSiblings(i) = {i} => CallCrossOffset(i) = 0

C20_Witness ==
  /\ WorkflowReturned
  /\ ~ret.thrown
  /\ call.options = <<>>
  /\ Len(call.workflow.steps) = 3
  /\ \A i \in 1..3 : call.workflow.steps[i].dependencies = <<>>
  /\ ret.graph.nodes[1].position = [x |-> Fin(50), y |-> Fin(50)]
  /\ ret.graph.nodes[2].position = [x |-> Fin(250), y |-> Fin(50)]
  /\ ret.graph.nodes[3].position = [x |-> Fin(450), y |-> Fin(50)]

(***************************************************************************)
(* Further properties of validateGraph (specification SpecValidate).       *)
(***************************************************************************)
\* The number of entries of the list equal to the message.
Occurrences(list, message) == Cardinality({e \in 1..Len(list) : list[e] = message})

BoolCount(b) == IF b THEN 1 ELSE 0

\* C21: the errors hold one entry for every failed blocking check, all
\* together: no nodes, duplicate node ids, and one per edge per missing
\* endpoint (two for an edge with both missing); no check is skipped
\* because an earlier one failed.
C21_AllChecksRun ==
  ValidateReturned =>
    /\ Occurrences(ret.errors, "Graph has no nodes") = BoolCount(Len(call.graph.nodes) = 0)
    /\ Occurrences(ret.errors, "Graph contains duplicate node IDs")
         = BoolCount(Cardinality(GraphNodeIds(call.graph)) # Len(call.graph.nodes))
    /\ \A k \in 1..Len(call.graph.edges) :
         /\ Cardinality(ErrorsNaming(ret.errors, "source", call.graph.edges[k].id,
                                     call.graph.edges[k].source))
              = BoolCount(k \in DanglingSources(call.graph))
         /\ Cardinality(ErrorsNaming(ret.errors, "target", call.graph.edges[k].id,
                                     call.graph.edges[k].target))
              = BoolCount(k \in DanglingTargets(call.graph))
    /\ Len(ret.errors)
         = BoolCount(Len(call.graph.nodes) = 0)
           + BoolCount(HasDuplicateNodeIds(call.graph))
           + Cardinality(DanglingSources(call.graph))
           + Cardinality(DanglingTargets(call.graph))

C21_Witness ==
  /\ ValidateReturned
  /\ Len(call.graph.nodes) = 0
  /\ Len(call.graph.edges) = 1
  /\ call.graph.edges[1].source = "nonexistent"
  /\ call.graph.edges[1].target = "n1"
  /\ ret.errors = <<"Graph has no nodes",
                    "Edge \"e1\" references non-existent source node \"nonexistent\"",
                    "Edge \"e1\" references non-existent target node \"n1\"">>

\* The (source, target) pairs of the edges of g, and the edges with a pair.
EdgePairs(g) == {<<g.edges[k].source, g.edges[k].target>> : k \in 1..Len(g.edges)}

EdgesWithPair(g, p) ==
  {k \in 1..Len(g.edges) : g.edges[k].source = p[1] /\ g.edges[k].target = p[2]}

DuplicateEdgeWarning(p) == "Duplicate edge from " \o Quoted(p[1]) \o " to " \o Quoted(p[2])

\* C22: there is exactly one duplicate-edge warning for each (source,
\* target) pair that more than one edge has, however often the pair is
\* repeated, and none for a pair that one edge has.
C22_DuplicateEdgeWarnings ==
  ValidateReturned =>
    \A p \in EndpointUniverse \X EndpointUniverse :
      Occurrences(ret.warnings, DuplicateEdgeWarning(p))
        = BoolCount(Cardinality(EdgesWithPair(call.graph, p)) > 1)

IsolatedNodeWarning(id) == "Node " \o Quoted(id) \o " is not connected to any other node"

\* C23: a node gets one isolated-node warning exactly when the graph has
\* more than one node and no edge has the node's id as source or target; a
\* single node without edges gets none, a node with only a self-loop gets
\* none.
C23_IsolatedNodeWarnings ==
  ValidateReturned =>
    /\ \A id \in NodeIdUniverse :
         Occurrences(ret.warnings, IsolatedNodeWarning(id))
           = IF /\ Len(call.graph.nodes) > 1
                /\ \A k \in 1..Len(call.graph.edges) :
                     call.graph.edges[k].source # id /\ call.graph.edges[k].target # id
             THEN Cardinality({i \in 1..Len(call.graph.nodes) : call.graph.nodes[i].id = id})
             ELSE 0
    /\ Len(call.graph.nodes) = 1 /\ Len(call.graph.edges) = 0 => ret.warnings = <<>>

C23_Witness ==
  /\ ValidateReturned
  /\ Len(call.graph.nodes) = 2
  /\ call.graph.nodes[1].id = "n1"
  /\ call.graph.nodes[2].id = "n2"
  /\ Len(call.graph.edges) = 1
  /\ call.graph.edges[1].source = "n1"
  /\ call.graph.edges[1].target = "n1"
  /\ ret.warnings = <<"Edge \"e1\" is a self-loop",
                      "Node \"n2\" is not connected to any other node">>

(***************************************************************************)
(* MoodReader cache (lib/cache.js).  memoryCache is a Map: a sequence of   *)
(* [key, value] in insertion order; setting a key it has already keeps the *)
(* key's place.                                                            *)
(***************************************************************************)
\* CACHE_CONFIG.maxSize and CACHE_CONFIG.defaultTTL, scaled down: the
\* program has 50 entries and 30 minutes, the model these many entries and
\* clock ticks.
maxSize == 2
defaultTTL == 2
\* The last value of the clock, and the number of cache calls of a run.
MaxTime == 3
MaxOps == 4

CharCodeTable == [c \in {" ", "a", "b", "c"} |->
                    IF c = " " THEN 32 ELSE IF c = "a" THEN 97 ELSE IF c = "b" THEN 98 ELSE 99]

\* String.prototype.charCodeAt
CharCodeAt(s, i) == CharCodeTable[Char(s, i)]

\* The hash is a signed 32-bit integer (hash & hash is ToInt32); it is kept
\* as its two unsigned 16-bit halves hi and lo.
\* hash = ((hash << 5) - hash) + char; hash = hash & hash
HashStep(hash, char) ==
  [lo |-> (hash.lo * 31 + char) % 65536,
   hi |-> (hash.hi * 31 + ((hash.lo * 31 + char) \div 65536)) % 65536]

RECURSIVE HashFrom(_, _, _)
HashFrom(sample, i, hash) ==
  IF i > Len(sample) THEN hash
  ELSE HashFrom(sample, i + 1, HashStep(hash, CharCodeAt(sample, i)))

\* Math.abs(hash): the two's complement of a negative hash
Abs(hash) ==
  IF hash.hi >= 32768
  THEN [lo |-> (65536 - hash.lo) % 65536,
        hi |-> (65535 - hash.hi + (IF hash.lo = 0 THEN 1 ELSE 0)) % 65536]
  ELSE hash

HexDigits == "0123456789abcdef"

RECURSIVE ToHex(_)
ToHex(n) ==
  IF n < 16 THEN Char(HexDigits, n + 1)
  ELSE ToHex(n \div 16) \o Char(HexDigits, (n % 16) + 1)

PadStart4(s) == SubSeq("0000", 1, 4 - Len(s)) \o s

\* Number.prototype.toString(16) of a non-negative number given by halves
ToString16(n) == IF n.hi = 0 THEN ToHex(n.lo) ELSE ToHex(n.hi) \o PadStart4(ToHex(n.lo))

\* `mood_${Math.abs(hash).toString(16)}_${text.length}`
KeyOfHash(hash, length) == "mood_" \o ToString16(Abs(hash)) \o "_" \o ToString(length)

generateCacheKey(text) ==
  KeyOfHash(HashFrom(Trim(SubSeq(text, 1, Min({200, Len(text)}))), 1, [hi |-> 0, lo |-> 0]),
            Len(text))

\* null
JsNull == [null |-> TRUE]

\* Map.prototype.has / get / delete / set on the sequence of entries.
MapHas(m, key) == \E i \in 1..Len(m) : m[i].key = key

MapIndex(m, key) == CHOOSE i \in 1..Len(m) : m[i].key = key

MapGet(m, key) == m[MapIndex(m, key)].value

MapDelete(m, key) ==
  [i \in 1..Cardinality({j \in 1..Len(m) : m[j].key # key}) |->
     m[NthOf({j \in 1..Len(m) : m[j].key # key}, i)]]

MapSet(m, key, value) ==
  IF MapHas(m, key)
  THEN [m EXCEPT ![MapIndex(m, key)] = [key |-> key, value |-> value]]
  ELSE Append(m, [key |-> key, value |-> value])

\* The size check of setCachedAnalysis with nothing evicted.
EvictOldestNever(m) == m

\* if (memoryCache.size > maxSize) delete memoryCache.keys().next().value
EvictOldest(m) == IF Len(m) > maxSize THEN MapDelete(m, m[1].key) ELSE m

\* getCachedAnalysis once the key is known to be in the cache.
ReadEntry(m, now, key) ==
  IF now < MapGet(m, key).expires
  THEN [data |-> MapGet(m, key).data, memoryCache |-> m]
  ELSE [data |-> JsNull, memoryCache |-> MapDelete(m, key)]

\* getCachedAnalysis(text) at time now: the value returned (Null for null)
\* and the cache left behind.
GetWithKey(m, now, key) ==
  IF MapHas(m, key) THEN ReadEntry(m, now, key) ELSE [data |-> JsNull, memoryCache |-> m]

getCachedAnalysis(m, now, text) == GetWithKey(m, now, generateCacheKey(text))

\* setCachedAnalysis(text, result, ttl) at time now: the cache left behind.
setCachedAnalysis(m, now, text, result, ttl) ==
  EvictOldest(MapSet(m, generateCacheKey(text),
                     [data |-> result, expires |-> now + ttl, created |-> now]))

clearCache(m) == <<>>

cleanExpiredCache(m, now) ==
  [i \in 1..Cardinality({j \in 1..Len(m) : ~(now >= m[j].value.expires)}) |->
     m[NthOf({j \in 1..Len(m) : ~(now >= m[j].value.expires)}, i)]]

\* The texts the cache is called with; " a" and "a " have one key.
CacheTexts == {"a", " a", "a ", "b", "c"}

\* The analysis result of a text.
ResultFor(text) == [mood_tag |-> "mood of " \o Quoted(text)]

\* The ttl arguments: omitted, so the default.
CacheTTLs == {defaultTTL}

KeysOf(m) == {m[i].key : i \in 1..Len(m)}

\* aux.lastUse: for each key of the cache the number of the call that last
\* wrote it or read it with a hit.
UsedAt(lastUse, m, touched, n) ==
  [k \in KeysOf(m) |-> IF k \in touched THEN n ELSE lastUse[k]]

InitCache ==
  /\ pc = "idle"
  /\ call = Null
  /\ ret = Null
  /\ mem = [memoryCache |-> <<>>, now |-> 0]
  /\ aux = [ops |-> 0, lastUse |-> <<>>, evicted |-> Null, nullRead |-> {}]

\* aux.nullRead: the texts whose expired entry a read has removed, no
\* setCachedAnalysis for the text since.  The call records the time, the
\* entry the cache held for the key and whether the text was such a text.
GetCachedAnalysisReturns(text, key, r) ==
  /\ call' = [fn |-> "getCachedAnalysis", text |-> text, key |-> key, now |-> mem.now,
              entry |-> IF MapHas(mem.memoryCache, key)
                        THEN MapGet(mem.memoryCache, key) ELSE Null,
              nullRead |-> text \in aux.nullRead]
  /\ ret' = r.data
  /\ mem' = [mem EXCEPT !.memoryCache = r.memoryCache]
  /\ aux' = [ops      |-> aux.ops + 1,
             lastUse  |-> UsedAt(aux.lastUse, r.memoryCache,
                                 IF r.data = JsNull THEN {} ELSE {key}, aux.ops + 1),
             evicted  |-> Null,
             nullRead |-> IF MapHas(mem.memoryCache, key) /\ r.data = JsNull
                          THEN aux.nullRead \cup {text} ELSE aux.nullRead]
  /\ UNCHANGED pc

GetCachedAnalysis ==
  /\ aux.ops < MaxOps
  /\ \E text \in CacheTexts :
       GetCachedAnalysisReturns(text, generateCacheKey(text),
                                getCachedAnalysis(mem.memoryCache, mem.now, text))

\* aux.evicted: the key the call evicted with the number of its last use.
SetCachedAnalysisReturns(text, key, m) ==
  /\ call' = [fn |-> "setCachedAnalysis", text |-> text, key |-> key]
  /\ ret' = Null
  /\ mem' = [mem EXCEPT !.memoryCache = m]
  /\ aux' = [ops      |-> aux.ops + 1,
             lastUse  |-> UsedAt(aux.lastUse, m, {key}, aux.ops + 1),
             evicted  |-> IF KeysOf(mem.memoryCache) \subseteq KeysOf(m) THEN Null
                          ELSE [key |-> CHOOSE k \in KeysOf(mem.memoryCache) : k \notin KeysOf(m),
                                use |-> aux.lastUse[CHOOSE k \in KeysOf(mem.memoryCache) :
                                                      k \notin KeysOf(m)]],
             nullRead |-> aux.nullRead \ {text}]
  /\ UNCHANGED pc

SetCachedAnalysis ==
  /\ aux.ops < MaxOps
  /\ \E text \in CacheTexts, ttl \in CacheTTLs :
       SetCachedAnalysisReturns(text, generateCacheKey(text),
                                setCachedAnalysis(mem.memoryCache, mem.now, text,
                                                  ResultFor(text), ttl))

CacheEmptied(fn, m) ==
  /\ call' = [fn |-> fn]
  /\ ret' = Null
  /\ mem' = [mem EXCEPT !.memoryCache = m]
  /\ aux' = [aux EXCEPT !.ops = @ + 1, !.lastUse = UsedAt(aux.lastUse, m, {}, 0),
                        !.evicted = Null]
  /\ UNCHANGED pc

\* setInterval(cleanExpiredCache, ...): the timer fires at any time.
CleanExpiredCache ==
  /\ aux.ops < MaxOps
  /\ CacheEmptied("cleanExpiredCache", cleanExpiredCache(mem.memoryCache, mem.now))

ClearCache ==
  /\ aux.ops < MaxOps
  /\ CacheEmptied("clearCache", clearCache(mem.memoryCache))

\* Date.now() moves on.
TickCache ==
  /\ mem.now < MaxTime
  /\ mem' = [mem EXCEPT !.now = @ + 1]
  /\ UNCHANGED <<call, pc, ret, aux>>

NextCache ==
  GetCachedAnalysis \/ SetCachedAnalysis \/ CleanExpiredCache \/ ClearCache \/ TickCache

SpecCache == InitCache /\ [][NextCache]_vars

(***************************************************************************)
(* Properties of the mood cache (specification SpecCache).                 *)
(***************************************************************************)
\* C24: the entry setCachedAnalysis evicts is the least recently used one:
\* no entry left in the cache was last read or written before the evicted
\* entry was.
C24_EvictionIsLRU ==
  aux.evicted # Null =>
    \A k \in KeysOf(mem.memoryCache) : aux.lastUse[k] > aux.evicted.use

\* C27: the cache never holds more than maxSize entries.
C27_SizeBound == Len(mem.memoryCache) <= maxSize

C27_Witness ==
  /\ aux.evicted # Null
  /\ call.fn = "setCachedAnalysis"
  /\ Len(mem.memoryCache) = maxSize

GetReturned == "fn" \in DOMAIN call /\ call.fn = "getCachedAnalysis"

\* C28: getCachedAnalysis returns an entry only before its expiry time; a
\* read at or after it returns null and removes the entry; and once such a
\* read has happened for a text, reads for the text return null until
\* setCachedAnalysis is called for that text again.
C28_Expiry ==
  GetReturned =>
    /\ ret # JsNull =>
         /\ call.entry # Null
         /\ ret = call.entry.data
         /\ call.now < call.entry.expires
    /\ call.entry # Null /\ call.now >= call.entry.expires =>
         /\ ret = JsNull
         /\ ~MapHas(mem.memoryCache, call.key)
    /\ call.nullRead => ret = JsNull

(***************************************************************************)
(* Flow store (lib/store/useFlowStore).  mem is the store's state; the    *)
(* actions are the store's methods, each one whole call.                   *)
(***************************************************************************)
MaxStoreOps == 4

StrokeStyle == [stroke |-> "#00F0FF", strokeWidth |-> 2]

FlowNodeOf(node) ==
  [id       |-> node.id,
   type     |-> "workflow",
   position |-> node.position,
   data     |-> [label |-> node.data.label, type |-> node.type]]

\* edge.animated ?? true; the label is undefined for the edges generated.
FlowEdgeOf(edge) ==
  [id       |-> edge.id,
   source   |-> edge.source,
   target   |-> edge.target,
   animated |-> IF "animated" \in DOMAIN edge THEN edge.animated ELSE TRUE,
   style    |-> StrokeStyle]

graphToFlowFormat(graph) ==
  [nodes |-> [i \in 1..Len(graph.nodes) |-> FlowNodeOf(graph.nodes[i])],
   edges |-> [k \in 1..Len(graph.edges) |-> FlowEdgeOf(graph.edges[k])]]

\* The position dagre computes for the graph node of an id (nodes of one id
\* are one dagre node); the coordinates themselves are the library's.
DagrePosition(id) == [layout |-> "dagre", node |-> id]

\* getLayoutedElements: every node keeps its fields but the position, the
\* edges are returned as given.
getLayoutedElements(nodes, edges) ==
  [nodes |-> [i \in 1..Len(nodes) |-> [nodes[i] EXCEPT !.position = DagrePosition(nodes[i].id)]],
   edges |-> edges]

\* array.filter
Filter(seq, keep(_)) ==
  [i \in 1..Cardinality({j \in 1..Len(seq) : keep(seq[j])}) |->
     seq[NthOf({j \in 1..Len(seq) : keep(seq[j])}, i)]]

\* deleteNode that keeps the edges arriving at the node.
deleteNodeSourceOnly(state, nodeId) ==
  [state EXCEPT
     !.nodes = Filter(state.nodes, LAMBDA node : node.id # nodeId),
     !.edges = Filter(state.edges, LAMBDA edge : edge.source # nodeId),
     !.selectedNode = IF state.selectedNode # JsNull /\ state.selectedNode.id = nodeId
                      THEN JsNull ELSE state.selectedNode]

deleteNode(state, nodeId) ==
  [state EXCEPT
     !.nodes = Filter(state.nodes, LAMBDA node : node.id # nodeId),
     !.edges = Filter(state.edges,
                      LAMBDA edge : edge.source # nodeId /\ edge.target # nodeId),
     !.selectedNode = IF state.selectedNode # JsNull /\ state.selectedNode.id = nodeId
                      THEN JsNull ELSE state.selectedNode]

setSelectedNode(state, node) == [state EXCEPT !.selectedNode = node]

clearFlow(state) ==
  [state EXCEPT !.nodes = <<>>, !.edges = <<>>, !.selectedNode = JsNull,
                !.lastConversionResult = JsNull, !.shouldFitView = FALSE]

\* result.success && result.graph
HasGraph(result) == result.success /\ "graph" \in DOMAIN result

\* The second set of loadFromText, layouted being the layouted elements.
LoadLayouted(state, layouted) ==
  [state EXCEPT !.nodes = layouted.nodes, !.edges = layouted.edges,
                !.selectedNode = JsNull, !.shouldFitView = TRUE]

LoadFlow(state, flow) == LoadLayouted(state, getLayoutedElements(flow.nodes, flow.edges))

\* The store after loadFromText got result from textToGraph.
LoadResult(state, result) ==
  IF HasGraph(result)
  THEN LoadFlow([state EXCEPT !.lastConversionResult = result], graphToFlowFormat(result.graph))
  ELSE [state EXCEPT !.lastConversionResult = result]

loadFromText(state, text, options) == LoadResult(state, textToGraph(text, options))

\* The edge appendFromText adds from the last existing node to the first new.
ConnectEdge(lastExisting, firstNew, now) ==
  [id       |-> "edge-connect-" \o ToString(now),
   source   |-> lastExisting.id,
   target   |-> firstNew.id,
   animated |-> TRUE,
   style    |-> StrokeStyle]

ConnectEdges(existingNodes, newNodes, now) ==
  IF Len(existingNodes) > 0 /\ Len(newNodes) > 0
  THEN <<ConnectEdge(existingNodes[Len(existingNodes)], newNodes[1], now)>>
  ELSE <<>>

AppendLayouted(state, layouted) ==
  [state EXCEPT !.nodes = layouted.nodes, !.edges = layouted.edges, !.shouldFitView = TRUE]

AppendFlow(state, existingNodes, existingEdges, flow, now) ==
  AppendLayouted(state,
                 getLayoutedElements(existingNodes \o flow.nodes,
                                     existingEdges \o flow.edges
                                       \o ConnectEdges(existingNodes, flow.nodes, now)))

\* The store after appendFromText got result from textToGraph at time now.
AppendResult(state, result, now) ==
  IF HasGraph(result)
  THEN AppendFlow([state EXCEPT !.lastConversionResult = result], state.nodes, state.edges,
                  graphToFlowFormat(result.graph), now)
  ELSE [state EXCEPT !.lastConversionResult = result]

appendFromText(state, text, options, now) ==
  AppendResult(state, textToGraph(text, options), now)

\* Inputs of the store's methods.
StoreTexts == {"A", "A -> B", "A -> B -> C", ""}

StoreOptions == {<<>>}

StoreNodeIds == {"step-1", "step-2", "step-3", "step-4"}

StoreTimes == {1700000000}

InitStore ==
  /\ pc = "idle"
  /\ call = Null
  /\ ret = Null
  /\ aux = [ops |-> 0]
  /\ mem = [nodes                |-> <<>>,
            edges                |-> <<>>,
            selectedNode         |-> JsNull,
            isProcessing         |-> FALSE,
            lastConversionResult |-> JsNull,
            shouldFitView        |-> FALSE,
            lastError            |-> JsNull]

\* A method call: the store before it is kept in the call.
StoreCall(c, result, state) ==
  /\ aux.ops < MaxStoreOps
  /\ call' = [c EXCEPT !.before = mem]
  /\ ret' = result
  /\ mem' = state
  /\ aux' = [aux EXCEPT !.ops = @ + 1]
  /\ UNCHANGED pc

LoadFromText ==
  \E text \in StoreTexts, options \in StoreOptions :
    StoreCall([fn |-> "loadFromText", text |-> text, options |-> options, before |-> Null],
              textToGraph(text, options), loadFromText(mem, text, options))

AppendFromText ==
  \E text \in StoreTexts, options \in StoreOptions, now \in StoreTimes :
    StoreCall([fn |-> "appendFromText", text |-> text, options |-> options, now |-> now,
               before |-> Null],
              textToGraph(text, options), appendFromText(mem, text, options, now))

DeleteNode ==
  \E nodeId \in StoreNodeIds :
    StoreCall([fn |-> "deleteNode", nodeId |-> nodeId, before |-> Null],
              Null, deleteNode(mem, nodeId))

\* The canvas selects one of the nodes shown, or nothing.
SetSelectedNode ==
  \E node \in {mem.nodes[i] : i \in 1..Len(mem.nodes)} \cup {JsNull} :
    StoreCall([fn |-> "setSelectedNode", node |-> node, before |-> Null],
              Null, setSelectedNode(mem, node))

ClearFlow ==
  StoreCall([fn |-> "clearFlow", before |-> Null], Null, clearFlow(mem))

NextStore == LoadFromText \/ AppendFromText \/ DeleteNode \/ SetSelectedNode \/ ClearFlow

SpecStore == InitStore /\ [][NextStore]_vars

(***************************************************************************)
(* Properties of the flow store (specification SpecStore).                 *)
(***************************************************************************)
StoreCalled(fn) == "fn" \in DOMAIN call /\ call.fn = fn

\* appendFromText added its connecting edge: it is the last edge held.
AppendConnected ==
  /\ StoreCalled("appendFromText")
  /\ HasGraph(ret)
  /\ Len(call.before.nodes) > 0
  /\ Len(ret.graph.nodes) > 0

\* C25: after any sequence of loadFromText, appendFromText, deleteNode and
\* clearFlow (and selections) from the empty store the ids of the nodes held
\* are pairwise distinct, and the connecting edge appendFromText adds joins
\* two different nodes.
C25_NodeIdsDistinct ==
  /\ PairwiseDistinct([i \in 1..Len(mem.nodes) |-> mem.nodes[i].id])
  /\ AppendConnected =>
       mem.edges[Len(mem.edges)].source # mem.edges[Len(mem.edges)].target

\* Every edge endpoint is the id of a node held.
EndpointsAreNodes(state) ==
  \A k \in 1..Len(state.edges) :
    /\ \E i \in 1..Len(state.nodes) : state.nodes[i].id = state.edges[k].source
    /\ \E i \in 1..Len(state.nodes) : state.nodes[i].id = state.edges[k].target

\* C26: deleteNode(id) removes the nodes with that id and every edge whose
\* source or target is id, clears selectedNode only if the selected node has
\* that id, and leaves the other nodes and edges (in their order) and the
\* other fields of the state as they were; edge endpoints that were all node
\* ids before the call are all node ids after it.
C26_DeleteNodeFrame ==
  StoreCalled("deleteNode") =>
    /\ mem.nodes = SelectSeq(call.before.nodes, LAMBDA node : node.id # call.nodeId)
    /\ mem.edges = SelectSeq(call.before.edges,
                             LAMBDA edge : edge.source # call.nodeId /\ edge.target # call.nodeId)
    /\ \A i \in 1..Len(mem.nodes) : mem.nodes[i].id # call.nodeId
    /\ \A k \in 1..Len(mem.edges) :
         mem.edges[k].source # call.nodeId /\ mem.edges[k].target # call.nodeId
    /\ mem.selectedNode =
         IF call.before.selectedNode # JsNull /\ call.before.selectedNode.id = call.nodeId
         THEN JsNull ELSE call.before.selectedNode
    /\ mem.isProcessing = call.before.isProcessing
    /\ mem.lastConversionResult = call.before.lastConversionResult
    /\ mem.shouldFitView = call.before.shouldFitView
    /\ mem.lastError = call.before.lastError
    /\ EndpointsAreNodes(call.before) => EndpointsAreNodes(mem)

\* The selected last node of a three-node chain deleted: one edge goes with
\* it, one stays.
C26_Witness ==
  /\ StoreCalled("deleteNode")
  /\ call.nodeId = "step-3"
  /\ Len(call.before.nodes) = 3
  /\ Len(call.before.edges) = 2
  /\ call.before.selectedNode # JsNull
  /\ call.before.selectedNode.id = "step-3"
  /\ [i \in 1..Len(mem.nodes) |-> mem.nodes[i].id] = <<"step-1", "step-2">>
  /\ [k \in 1..Len(mem.edges) |-> mem.edges[k].id] = <<"edge-0">>
  /\ mem.selectedNode = JsNull
  /\ mem.lastConversionResult # JsNull

(***************************************************************************)
(* Gemini request deduplication (lib/gemini.js).  mem.pendingRequests is   *)
(* the Map of request key to analysis promise; mem.promises the analysis   *)
(* promises created so far, a promise named by its index; mem.fetches the  *)
(* number of fetch calls made.                                             *)
(***************************************************************************)
\* The number of analyzeSentiment calls of a run.
MaxRequests == 3

GEMINI_MODELS ==
  <<"gemini-2.0-flash", "gemini-1.5-flash-latest", "gemini-1.5-flash", "gemini-pro">>

\* hash2 = ((hash2 << 7) - hash2) + char; hash2 = hash2 & hash2
HashStep7(hash, char) ==
  [lo |-> (hash.lo * 127 + char) % 65536,
   hi |-> (hash.hi * 127 + ((hash.lo * 127 + char) \div 65536)) % 65536]

RECURSIVE Hash7From(_, _, _)
Hash7From(sample, i, hash) ==
  IF i > Len(sample) THEN hash
  ELSE Hash7From(sample, i + 1, HashStep7(hash, CharCodeAt(sample, i)))

\* `req_${Math.abs(hash1).toString(16)}_${Math.abs(hash2).toString(16)}_${text.length}`
KeyOfHashes(hash1, hash2, length) ==
  "req_" \o ToString16(Abs(hash1)) \o "_" \o ToString16(Abs(hash2)) \o "_" \o ToString(length)

KeyOfSample(sample, length) ==
  KeyOfHashes(HashFrom(sample, 1, [hi |-> 0, lo |-> 0]),
              Hash7From(sample, 1, [hi |-> 0, lo |-> 0]), length)

generateRequestKey(text) ==
  KeyOfSample(Trim(SubSeq(text, 1, Min({300, Len(text)}))), Len(text))

\* The analysis promise created: the async function runs up to its first
\* await, the fetch for the first model, and the promise is put in the Map.
StartAnalysis(m, text, requestKey) ==
  [m EXCEPT !.promises = Append(@, [text      |-> text,
                                    key       |-> requestKey,
                                    state     |-> "pending",
                                    value     |-> JsNull,
                                    model     |-> 1,
                                    lastError |-> JsNull]),
            !.pendingRequests = MapSet(@, requestKey, Len(m.promises) + 1),
            !.fetches = @ + 1]

\* analyzeSentiment from the deduplication on: the store and what the call
\* returns (the promise it resolves to).
Deduplicate(m, text, requestKey) ==
  IF MapHas(m.pendingRequests, requestKey)
  THEN [m |-> m, returned |-> [promise |-> MapGet(m.pendingRequests, requestKey)]]
  ELSE [m |-> StartAnalysis(m, text, requestKey),
        returned |-> [promise |-> Len(m.promises) + 1]]

analyzeSentiment(m, text, apiKey) ==
  IF apiKey = ""
  THEN [m |-> m, returned |-> [thrown |-> "Gemini API key is required"]]
  ELSE IF text = "" \/ Len(Trim(text)) = 0
  THEN [m |-> m, returned |-> [thrown |-> "No text provided for analysis"]]
  ELSE Deduplicate(m, text, generateRequestKey(text))

\* result.mood_tag || ..., result.search_query || ...
NormalizedResult(result) ==
  [mood_tag     |-> IF "mood_tag" \in DOMAIN result THEN result.mood_tag ELSE "Ambient Focus",
   search_query |-> IF "search_query" \in DOMAIN result THEN result.search_query
                    ELSE "ambient instrumental background music"]

\* The promise settles: the finally block deletes the key, then the promise
\* is fulfilled or rejected; the locals of the function are gone.
Settled(m, id, state, value) ==
  [m EXCEPT !.promises[id] = [text |-> @.text, key |-> @.key, state |-> state,
                              value |-> value, model |-> 0, lastError |-> JsNull],
            !.pendingRequests = MapDelete(@, m.promises[id].key)]

Fulfilled(m, id, value) == Settled(m, id, "fulfilled", value)

\* The rejection that leaves the key in the Map.
RejectedKeepsEntry(m, id, error) ==
  [m EXCEPT !.promises[id] = [text |-> @.text, key |-> @.key, state |-> "rejected",
                              value |-> error, model |-> 0, lastError |-> JsNull]]

Rejected(m, id, error) == Settled(m, id, "rejected", error)

\* continue: the next model is fetched; after the last, throw lastError.
NextModel(m, id, error) ==
  IF m.promises[id].model < Len(GEMINI_MODELS)
  THEN [m EXCEPT !.promises[id].model = @ + 1,
                 !.promises[id].lastError = error,
                 !.fetches = @ + 1]
  ELSE Rejected(m, id, error)

\* The inner catch: an abort goes on to the next model, so does an error
\* whose message mentions 'not found' or '404'; any other is thrown on.
Caught(m, id, error) ==
  IF error.name = "AbortError" THEN NextModel(m, id, error)
  ELSE IF ~Includes(error.message, "not found") /\ ~Includes(error.message, "404")
  THEN Rejected(m, id, error)
  ELSE NextModel(m, id, error)

ErrorOf(message) == [name |-> "Error", message |-> message]

\* The fetch of promise id settles with outcome o.
AfterFetch(m, id, o) ==
  IF o.kind = "rejects" THEN Caught(m, id, o.error)
  ELSE IF o.status = 404
  THEN NextModel(m, id, ErrorOf("Model " \o GEMINI_MODELS[m.promises[id].model] \o " not found"))
  ELSE IF o.status # 200
  THEN Caught(m, id, ErrorOf("Gemini API error: " \o ToString(o.status) \o " - " \o o.message))
  ELSE IF o.text = JsNull
  THEN Caught(m, id, ErrorOf("No content in Gemini response"))
  ELSE Fulfilled(m, id, NormalizedResult(o.text))

\* What a fetch can settle with.
FetchOutcomes ==
  {[kind |-> "response", status |-> 200, text |-> [mood_tag |-> "Calm"]],
   [kind |-> "response", status |-> 404, message |-> "no such model"],
   [kind |-> "response", status |-> 500, message |-> "Unknown error"],
   [kind |-> "rejects", error |-> [name |-> "AbortError", message |-> "The operation was aborted"]]}

\* Texts analysed; " a" and "a " have one request key.  The callers pass the
\* API key only when the settings hold one (background.js 196, 208).
RequestTexts == {"a", " a", "a ", " "}

ApiKeys == {"AIzaKey"}

PendingIds(m) == {id \in 1..Len(m.promises) : m.promises[id].state = "pending"}

InitDedup ==
  /\ pc = "idle"
  /\ call = Null
  /\ ret = Null
  /\ aux = [calls |-> 0]
  /\ mem = [pendingRequests |-> <<>>, promises |-> <<>>, fetches |-> 0]

\* The call keeps the promises pending and the fetches made before it.
AnalyzeSentimentReturns(text, apiKey, r) ==
  /\ call' = [fn |-> "analyzeSentiment", text |-> text, apiKey |-> apiKey,
              pendingBefore |-> PendingIds(mem), before |-> mem]
  /\ ret' = r.returned
  /\ mem' = r.m
  /\ aux' = [aux EXCEPT !.calls = @ + 1]
  /\ UNCHANGED pc

AnalyzeSentiment ==
  /\ aux.calls < MaxRequests
  /\ \E text \in RequestTexts, apiKey \in ApiKeys :
       AnalyzeSentimentReturns(text, apiKey, analyzeSentiment(mem, text, apiKey))

FetchSettles ==
  \E id \in PendingIds(mem), o \in FetchOutcomes :
    /\ call' = [fn |-> "fetch"]
    /\ ret' = Null
    /\ mem' = AfterFetch(mem, id, o)
    /\ UNCHANGED <<pc, aux>>

NextDedup == AnalyzeSentiment \/ FetchSettles

SpecDedup == InitDedup /\ [][NextDedup]_vars

(***************************************************************************)
(* Properties of the request deduplication (specification SpecDedup).      *)
(***************************************************************************)
AnalyzeReturned == "fn" \in DOMAIN call /\ call.fn = "analyzeSentiment"

\* The requests in flight for a text before the call: the pending analysis
\* promises that a call with this text started.
InFlightBefore(text) == {id \in call.pendingBefore : call.before.promises[id].text = text}

\* The call started a request of its own: a new pending promise for its
\* text, returned to the caller, and one fetch.
StartedFresh ==
  /\ Len(mem.promises) = Len(call.before.promises) + 1
  /\ ret = [promise |-> Len(mem.promises)]
  /\ mem.promises[Len(mem.promises)].text = call.text
  /\ mem.promises[Len(mem.promises)].state = "pending"
  /\ mem.fetches = call.before.fetches + 1
  /\ MapHas(mem.pendingRequests, generateRequestKey(call.text))
  /\ MapGet(mem.pendingRequests, generateRequestKey(call.text)) = Len(mem.promises)

\* C29: while a call for a text is in flight every further call with the
\* text returns that pending promise and starts no request; the entry of a
\* request is in pendingRequests exactly while the request is pending,
\* whether it ends fulfilled or rejected, so pendingRequests is empty when
\* nothing is in flight, and a call made then starts a fresh request.
C29_Deduplication ==
  /\ \A i \in 1..Len(mem.pendingRequests) :
       /\ mem.pendingRequests[i].value \in PendingIds(mem)
       /\ mem.promises[mem.pendingRequests[i].value].key = mem.pendingRequests[i].key
  /\ \A id \in PendingIds(mem) :
       /\ MapHas(mem.pendingRequests, mem.promises[id].key)
       /\ MapGet(mem.pendingRequests, mem.promises[id].key) = id
  /\ PendingIds(mem) = {} => mem.pendingRequests = <<>>
  /\ AnalyzeReturned /\ Len(Trim(call.text)) > 0 =>
       /\ Cardinality(InFlightBefore(call.text)) <= 1
       /\ InFlightBefore(call.text) # {} =>
            /\ "promise" \in DOMAIN ret
            /\ ret.promise \in InFlightBefore(call.text)
            /\ mem.fetches = call.before.fetches
            /\ mem.promises = call.before.promises
            /\ mem.pendingRequests = call.before.pendingRequests
       /\ call.pendingBefore = {} => StartedFresh

\* A first request for "a" was rejected and its entry removed, a second
\* call started a fresh request, and the third call, made while the second
\* is in flight, got the second's promise.
C29_Witness ==
  /\ AnalyzeReturned
  /\ call.text = "a"
  /\ Len(mem.promises) = 2
  /\ mem.promises[1].text = "a"
  /\ mem.promises[1].state = "rejected"
  /\ mem.promises[2].text = "a"
  /\ InFlightBefore("a") = {2}
  /\ ret = [promise |-> 2]
  /\ Len(mem.pendingRequests) = 1

(***************************************************************************)
(* MoodReader background worker (background.js).  mem.currentState is the  *)
(* module's currentState, mem.sent the last message sent to the content    *)
(* script, mem.textCache the analyses cached by text, mem.tasks the        *)
(* handlers that wait at an await, each with the request that started it.  *)
(* What the library picks at random or fetches (the instant playback data, *)
(* the AI result, the video found) is chosen from small sets.              *)
(***************************************************************************)
\* The number of messages (ANALYZE_TEXT, MANUAL_MOOD) of a run.
MaxMessages == 3

\* escapeHtml's escapeMap; the backquote, which no text here holds, is left out.
EscapeChar(c) ==
  IF c = "&" THEN "&amp;" ELSE IF c = "<" THEN "&lt;" ELSE IF c = ">" THEN "&gt;"
  ELSE IF c = "\"" THEN "&quot;" ELSE IF c = "'" THEN "&#39;" ELSE IF c = "/" THEN "&#x2F;"
  ELSE IF c = "=" THEN "&#x3D;" ELSE c

RECURSIVE escapeHtml(_)
escapeHtml(text) ==
  IF Len(text) = 0 THEN "" ELSE EscapeChar(Char(text, 1)) \o escapeHtml(SubSeq(text, 2, Len(text)))

\* sanitizeObject of mood data: the strings escaped, the numbers kept.
\* Energies are in hundredths.
sanitizeObject(obj) ==
  [mood_tag     |-> escapeHtml(obj.mood_tag),
   energy       |-> obj.energy,
   search_query |-> escapeHtml(obj.search_query)]

EmptyContext == [timeOfDay |-> JsNull, siteCategory |-> JsNull, url |-> JsNull]

\* The state handleAnalyzeRequest stores for instant playback.
InstantState(instantData, context) ==
  [isPlaying         |-> TRUE,
   currentMood       |-> instantData.mood,
   currentQuery      |-> instantData.moodData.search_query,
   currentVideoId    |-> instantData.videoId,
   currentVideoTitle |-> instantData.videoTitle,
   moodData          |-> instantData.moodData,
   context           |-> context,
   skipCount         |-> 0,
   isInstant         |-> TRUE]

\* The state playWithMoodAndVideo stores.
PlayState(moodData, video, context) ==
  [isPlaying         |-> TRUE,
   currentMood       |-> moodData.mood_tag,
   currentQuery      |-> moodData.search_query,
   currentVideoId    |-> video.videoId,
   currentVideoTitle |-> video.title,
   moodData          |-> moodData,
   context           |-> context,
   skipCount         |-> 0]

\* The state handleManualMood stores: the mood data sanitized, mood and
\* query as they are.
ManualState(moodData, video, context) ==
  [PlayState(moodData, video, context) EXCEPT !.moodData = sanitizeObject(moodData)]

\* The PLAY_MUSIC, AI_REFINEMENT messages for mood data and a video.
VideoMessage(type, moodData, video) ==
  [type |-> type,
   data |-> [mood       |-> moodData.mood_tag,
             query      |-> moodData.search_query,
             videoId    |-> video.videoId,
             videoTitle |-> video.title,
             energy     |-> moodData.energy]]

InstantMessage(instantData, settings) ==
  [type |-> "PLAY_MUSIC",
   data |-> [mood       |-> instantData.mood,
             videoId    |-> instantData.videoId,
             videoTitle |-> instantData.videoTitle,
             energy     |-> instantData.energy,
             moodData   |-> instantData.moodData,
             isInstant  |-> TRUE,
             loadingAI  |-> settings.apiKey # ""]]

shouldRefineWithAI(instantResult, textLength) ==
  IF instantResult.confidence > 80 THEN FALSE
  ELSE IF textLength < 200 THEN FALSE
  ELSE TRUE

Distance(a, b) == IF a < b THEN b - a ELSE a - b

\* refineWithAI's test of the AI result against the instant data.
MoodDiffers(aiMood, instantMood) ==
  ~Includes(aiMood, instantMood) /\ ~Includes(instantMood, aiMood)

Differs(sanitizedResult, instantData) ==
  \/ MoodDiffers(ToLowerCase(sanitizedResult.mood_tag), ToLowerCase(instantData.mood))
  \/ Distance(sanitizedResult.energy, instantData.energy) > 30

\* { ...currentState, currentMood, currentQuery, moodData, isInstant, aiRefined }
RefinedState(state, sanitizedResult) ==
  [f \in DOMAIN state \cup {"isInstant", "aiRefined"} |->
     IF f = "currentMood" THEN sanitizedResult.mood_tag
     ELSE IF f = "currentQuery" THEN sanitizedResult.search_query
     ELSE IF f = "moodData" THEN sanitizedResult
     ELSE IF f = "isInstant" THEN FALSE
     ELSE IF f = "aiRefined" THEN TRUE
     ELSE state[f]]

\* getFallbackMusicQuery for a context without time of day and category,
\* in the afternoon.
getFallbackMusicQuery(mood) ==
  IF mood = "relax"
  THEN [mood_tag |-> "Calm & Peaceful", energy |-> 20,
        search_query |-> "Calm acoustic guitar ambient relaxing instrumental BGM"]
  ELSE [mood_tag |-> "Deep Focus", energy |-> 30,
        search_query |-> "Lo-fi hip hop study beats instrumental no lyrics 1 hour"]

validMoods == {"focus", "relax", "sad", "energetic", "cinematic", "nature"}

\* Inputs.  A text is given by its name and its trimmed length.
ArticleTexts == {[name |-> "article", length |-> 1200], [name |-> "stub", length |-> 10]}

BackgroundSettings == {[apiKey |-> ""], [apiKey |-> "AIzaKey"]}

ManualMoods == {"relax", "party"}

Videos == {[videoId |-> "jfKfPfyJRdk", title |-> "lofi hip hop radio - beats to relax/study to"],
           [videoId |-> "S_MOd40zlYU", title |-> "Relaxing Ambient Music for Deep Focus"]}

\* getInstantPlaybackData: the mood profile of the mood detected, its energy
\* averaged with the afternoon's, and a curated video.
InstantMoodData ==
  [mood_tag |-> "Deep Focus", energy |-> 45,
   search_query |-> "Lo-fi hip hop study beats instrumental"]

InstantPlaybacks ==
  {[mood |-> InstantMoodData.mood_tag, videoId |-> v.videoId, videoTitle |-> v.title,
    energy |-> InstantMoodData.energy, isInstant |-> TRUE, moodData |-> InstantMoodData] :
     v \in Videos}

\* What analyzeSentiment resolves to, or its rejection.
AIOutcomes ==
  {[mood_tag |-> "Deep Focus Flow", energy |-> 50, search_query |-> "Lo-fi focus beats"],
   [mood_tag |-> "High Energy", energy |-> 80, search_query |-> "Upbeat electronic instrumental"],
   [rejected |-> "Gemini API error: 500 - Unknown error"]}

InitBackground ==
  /\ pc = "idle"
  /\ call = Null
  /\ ret = Null
  /\ aux = [messages |-> 0, owner |-> 0]
  /\ mem = [currentState |-> [isPlaying |-> FALSE, currentMood |-> JsNull,
                              currentQuery |-> JsNull, currentVideoId |-> JsNull,
                              currentVideoTitle |-> JsNull, moodData |-> JsNull,
                              context |-> JsNull, skipCount |-> 0],
            sent      |-> JsNull,
            textCache |-> <<>>,
            tasks     |-> <<>>]

TaskIds(pcs) == {i \in 1..Len(mem.tasks) : mem.tasks[i].pc \in pcs}

WithoutTask(tasks, i) == [j \in 1..(Len(tasks) - 1) |-> IF j < i THEN tasks[j] ELSE tasks[j + 1]]

\* handleAnalyzeRequest up to its await of chrome.storage.local.set.
AnalyzeCached(n, text, cachedResult, video) ==
  /\ mem' = [mem EXCEPT !.currentState = PlayState(cachedResult, video, EmptyContext),
                        !.tasks = Append(@, [request |-> n, pc |-> "stored", kind |-> "play",
                                             message |-> VideoMessage("PLAY_MUSIC", cachedResult, video)])]
  /\ aux' = [messages |-> n, owner |-> n]
  /\ ret' = Null

AnalyzeInstant(n, text, settings, instantData) ==
  /\ mem' = [mem EXCEPT !.currentState = InstantState(instantData, EmptyContext),
                        !.sent = InstantMessage(instantData, settings),
                        !.tasks = Append(@, [request |-> n, pc |-> "stored", kind |-> "analyze",
                                             text |-> text, settings |-> settings,
                                             instantData |-> instantData])]
  /\ aux' = [messages |-> n, owner |-> n]
  /\ ret' = Null

handleAnalyzeRequest(n, text, settings, instantData, video) ==
  IF text.length < 50
  THEN /\ ret' = [success |-> FALSE, error |-> "Not enough text content to analyze.",
                  code |-> "INSUFFICIENT_CONTENT"]
       /\ aux' = [aux EXCEPT !.messages = n]
       /\ UNCHANGED mem
  ELSE IF MapHas(mem.textCache, text.name)
  THEN AnalyzeCached(n, text, MapGet(mem.textCache, text.name), video)
  ELSE AnalyzeInstant(n, text, settings, instantData)

HandleAnalyzeRequest ==
  /\ aux.messages < MaxMessages
  /\ \E text \in ArticleTexts, settings \in BackgroundSettings,
        instantData \in InstantPlaybacks, video \in Videos :
       /\ handleAnalyzeRequest(aux.messages + 1, text, settings, instantData, video)
       /\ call' = [fn |-> "handleAnalyzeRequest", request |-> aux.messages + 1, text |-> text]
  /\ UNCHANGED pc

\* handleManualMood up to its await of searchYouTubeVideo.
HandleManualMood ==
  /\ aux.messages < MaxMessages
  /\ \E mood \in ManualMoods :
       /\ call' = [fn |-> "handleManualMood", request |-> aux.messages + 1, mood |-> mood]
       /\ aux' = [aux EXCEPT !.messages = @ + 1]
       /\ IF mood \notin validMoods
          THEN /\ ret' = [success |-> FALSE, error |-> "Invalid mood type"]
               /\ UNCHANGED mem
          ELSE /\ ret' = Null
               /\ mem' = [mem EXCEPT !.tasks =
                            Append(@, [request |-> aux.messages + 1, pc |-> "search",
                                       kind |-> "manual",
                                       moodData |-> getFallbackMusicQuery(mood)])]
  /\ UNCHANGED pc

\* chrome.storage.local.set resolves: the handler goes on to its end.
\* handleAnalyzeRequest starts refineWithAI, which runs up to its await of
\* analyzeSentiment; the other handlers send PLAY_MUSIC.
AfterStored(i, task) ==
  IF task.kind = "analyze"
  THEN IF task.settings.apiKey # "" /\ shouldRefineWithAI([confidence |-> 50], task.text.length)
       THEN [mem EXCEPT !.tasks[i] = [request |-> task.request, pc |-> "analysis",
                                      kind |-> "refine", text |-> task.text,
                                      instantData |-> task.instantData]]
       ELSE [mem EXCEPT !.tasks = WithoutTask(@, i)]
  ELSE [mem EXCEPT !.sent = task.message, !.tasks = WithoutTask(@, i)]

StorageSet ==
  /\ \E i \in TaskIds({"stored"}) :
       /\ mem' = AfterStored(i, mem.tasks[i])
       /\ call' = [fn |-> "stored", request |-> mem.tasks[i].request]
       /\ ret' = IF mem.tasks[i].kind = "analyze"
                 THEN [success |-> TRUE, data |-> mem.currentState, instant |-> TRUE]
                 ELSE [success |-> TRUE, data |-> mem.currentState]
  /\ UNCHANGED <<pc, aux>>

\* refineWithAI after analyzeSentiment settled with outcome.
AfterAnalysis(i, task, sanitizedResult) ==
  IF Differs(sanitizedResult, task.instantData)
  THEN [mem EXCEPT !.textCache = MapSet(@, task.text.name, sanitizedResult),
                   !.tasks[i] = [request |-> task.request, pc |-> "search", kind |-> "refine",
                                 sanitizedResult |-> sanitizedResult]]
  ELSE [mem EXCEPT !.textCache = MapSet(@, task.text.name, sanitizedResult),
                   !.sent = [type |-> "AI_CONFIRMED", data |-> [mood |-> sanitizedResult.mood_tag]],
                   !.tasks = WithoutTask(@, i)]

AnalysisSettles ==
  /\ \E i \in TaskIds({"analysis"}), outcome \in AIOutcomes :
       /\ mem' = IF "rejected" \in DOMAIN outcome
                 THEN [mem EXCEPT !.tasks = WithoutTask(@, i)]
                 ELSE AfterAnalysis(i, mem.tasks[i], sanitizeObject(outcome))
       /\ call' = [fn |-> "analyzeSentiment", request |-> mem.tasks[i].request]
  /\ ret' = Null
  /\ UNCHANGED <<pc, aux>>

\* searchYouTubeVideo resolves with a video for refineWithAI.
RefineFound(i, task, video) ==
  /\ mem' = [mem EXCEPT !.currentState = IF video # JsNull
                                         THEN RefinedState(@, task.sanitizedResult) ELSE @,
                        !.sent = IF video # JsNull
                                 THEN VideoMessage("AI_REFINEMENT", task.sanitizedResult, video)
                                 ELSE @,
                        !.tasks = WithoutTask(@, i)]
  /\ call' = [fn |-> "refineWithAI", request |-> task.request, owner |-> aux.owner,
              before |-> mem.currentState, updated |-> video # JsNull]
  /\ UNCHANGED aux

\* searchYouTubeVideo resolves with a video for handleManualMood.
ManualFound(i, task, video) ==
  /\ mem' = [mem EXCEPT !.currentState = ManualState(task.moodData, video, EmptyContext),
                        !.tasks[i] = [request |-> task.request, pc |-> "stored", kind |-> "manual",
                                      message |-> VideoMessage("PLAY_MUSIC", task.moodData, video)]]
  /\ call' = [fn |-> "handleManualMood", request |-> task.request, stored |-> TRUE]
  /\ aux' = [aux EXCEPT !.owner = task.request]

SearchSettles ==
  /\ \E i \in TaskIds({"search"}), video \in Videos :
       IF mem.tasks[i].kind = "refine"
       THEN RefineFound(i, mem.tasks[i], video)
       ELSE ManualFound(i, mem.tasks[i], video)
  /\ ret' = Null
  /\ UNCHANGED pc

NextBackground ==
  HandleAnalyzeRequest \/ HandleManualMood \/ StorageSet \/ AnalysisSettles \/ SearchSettles

SpecBackground == InitBackground /\ [][NextBackground]_vars

(***************************************************************************)
(* Properties of the background worker (specification SpecBackground).     *)
(***************************************************************************)
\* refineWithAI has just updated currentState and sent AI_REFINEMENT.
RefinementUpdated == "fn" \in DOMAIN call /\ call.fn = "refineWithAI" /\ call.updated

\* C30: a refinement that completes after a newer request (a manual mood
\* or another analyze request) stored currentState leaves the currentMood,
\* currentQuery and moodData stored by that request; and after any update
\* by a refinement currentMood, currentQuery and currentVideoId are those
\* of the video sent to the content script.
C30_RefinementKeepsNewerChoice ==
  RefinementUpdated =>
    /\ call.owner # call.request =>
         /\ mem.currentState.currentMood = call.before.currentMood
         /\ mem.currentState.currentQuery = call.before.currentQuery
         /\ mem.currentState.moodData = call.before.moodData
    /\ mem.currentState.currentMood = mem.sent.data.mood
    /\ mem.currentState.currentQuery = mem.sent.data.query
    /\ mem.currentState.currentVideoId = mem.sent.data.videoId

====
